---- MODULE Spec2Model ----
(***************************************************************************)
(* A model of the WhatsApp HTTP API service: the BullMQ worker with its    *)
(* per-session gate (worker.ts), the send pipeline (queue.ts, the v1 text  *)
(* route and the internal send route), the status store, the session       *)
(* manager (manager.ts) and the event store with its bus.                  *)
(*                                                                         *)
(* The parts share this module and are explored by scenario                *)
(* specifications, each leaving the other parts' variables unchanged:      *)
(*   SpecWorker, SpecLoad, SpecSend      worker, queue and API requests;   *)
(*   SpecEnsure, SpecMgr, SpecReconnect, SpecRecover, SpecReplace,         *)
(*   SpecBackoff, SpecRetry              the session manager, one id;      *)
(*   SpecUpsert                          the status store's upsert;        *)
(*   SpecStore, SpecBus                  the event store and its bus.      *)
(***************************************************************************)
EXTENDS Integers, Sequences, FiniteSets, TLC

(***************************************************************************)
(* Program constants.                                                      *)
(***************************************************************************)
MIN_SESSION_DELAY_MS == 1500
Concurrency == 20
Attempts == 4
maxJobLogs == 500
MAX_RECONNECT_DELAY_MS == 30000

(***************************************************************************)
(* Bounds of the exploration.                                              *)
(***************************************************************************)
MaxJobs == 2
MaxTicks == 1
MaxLoadJobs == 21
MaxReq == 1
MaxClients == 2
MaxCallers == 2
MaxEvents == 2
MaxAttempts == 10
MaxMessages == 2
MaxOverflow == 1
MaxAcks == 1
MaxListeners == 2
MaxPatchAttempts == 1

SessionIds == {"A", "B"}

\* The clock advances in steps of the pacing interval.  Date.now() is far
\* larger than the pacing interval, so the clock starts there.
TickMs == MIN_SESSION_DELAY_MS
StartMs == MIN_SESSION_DELAY_MS
MaxNow == StartMs + MaxTicks * TickMs

Max(a, b) == IF a > b THEN a ELSE b

VARIABLES
    now,                \* Date.now()
    workerAlive,        \* a worker process is registered with the queue
    redisUp,            \* the queue backend is reachable
    queueJobs,          \* the durable queue's jobs, by index
    waitList,           \* the queue's wait list, oldest first
    sessionLocks,       \* worker.ts sessionLocks: per session the promise chain
    sessionLastSendAt,  \* worker.ts sessionLastSendAt
    lastSendEnd,        \* history: when the last send of a session ended
    jobLogs,            \* statusStore.jobLogs, newest first
    req,                \* the API requests: position, payload, response
    sessions,           \* manager.ts sessions.get("main"): a context, 0 if none
    ctx,                \* the SessionContext objects ever created
    clients,            \* the transport's connection objects
    nextClient,         \* how many connection objects were created
    store,              \* statusStore.sessions.get("main")
    callers,            \* the ensureSession calls
    logoutTask,         \* the logout call: the await it is at, its context
    reconnects,         \* the reconnect calls, by origin
    emitted,            \* how many lifecycle callbacks were delivered
    eventStore,         \* the EventStore's containers
    bus                 \* eventStore.bus: listeners and the last emit

workerVars == <<now, workerAlive, redisUp, queueJobs, waitList, sessionLocks,
                sessionLastSendAt, lastSendEnd, jobLogs>>

mgrVars == <<sessions, ctx, clients, nextClient, store, callers, logoutTask,
            reconnects, emitted>>

evVars == <<eventStore, bus>>

vars == <<workerVars, req, mgrVars, evVars>>

(***************************************************************************)
(* Identifiers.  crypto.randomUUID() values are distinct per call; the     *)
(* transport's message id (sent.id._serialized) is a third kind of id.     *)
(***************************************************************************)
Uuid(n) == [kind |-> "uuid", n |-> n]
DirectId(n) == [kind |-> "direct", n |-> n]
MsgId(n) == [kind |-> "msg", n |-> n]
\* The message ids of the sends made for request or job n: by the worker's
\* internal call, and by sendDirect.
WorkerMsgId(n) == MsgId(2 * n - 1)
DirectMsgId(n) == MsgId(2 * n)

NewJob(s, t, id) ==
    [sessionId |-> s, type |-> t, jobId |-> id, pc |-> "waiting",
     attemptsMade |-> 0, failedReason |-> "", wakeAt |-> 0]

JobIds == DOMAIN queueJobs
ActivePcs == {"waitPrev", "delay", "task", "respOk", "respFail"}
ActiveJobs == {j \in JobIds : queueJobs[j].pc \in ActivePcs}

(***************************************************************************)
(* statusStore.addJobLog: prepend, then cut to maxJobLogs.                 *)
(***************************************************************************)
addJobLog(logs, entry) ==
    LET added == <<entry>> \o logs
    IN  IF Len(added) > maxJobLogs THEN SubSeq(added, 1, maxJobLogs) ELSE added

(***************************************************************************)
(* runInSessionLock.  sessionLocks[s] is the chain previous.then(() =>     *)
(* current): one entry per call, in call order, each resolved by its own   *)
(* release().  A chain promise is resolved when every entry up to it is    *)
(* released; a fully released prefix is a resolved promise and is dropped. *)
(***************************************************************************)
RECURSIVE DropReleased(_)
DropReleased(chain) ==
    IF chain # <<>> /\ Head(chain).released
    THEN DropReleased(Tail(chain))
    ELSE chain

OwnEntry(j) ==
    LET chain == sessionLocks[queueJobs[j].sessionId]
    IN  CHOOSE i \in 1..Len(chain) : chain[i].job = j /\ ~chain[i].released

\* A gate that does not wait for the previous holder.
PreviousResolvedNoWait(j) == TRUE

\* `await previous`: the chain promise stored before this call's entry.
PreviousResolved(j) ==
    LET chain == sessionLocks[queueJobs[j].sessionId]
    IN  \A i \in 1..(OwnEntry(j) - 1) : chain[i].released

\* release() in the finally block.
Released(j) ==
    LET s == queueJobs[j].sessionId
        chain == sessionLocks[s]
        i == OwnEntry(j)
    IN  [sessionLocks EXCEPT
            ![s] = DropReleased([chain EXCEPT ![i].released = TRUE])]

\* The wait computed from sessionLastSendAt (0 when the session never sent).
PacingWait(s) == Max(0, MIN_SESSION_DELAY_MS - (now - sessionLastSendAt[s]))

(***************************************************************************)
(* The worker's processor, one action per await.                           *)
(***************************************************************************)
\* BullMQ hands the oldest waiting job to a free slot; the processor runs
\* runInSessionLock up to `await previous`.
WorkerDequeue ==
    /\ workerAlive /\ redisUp
    /\ waitList # <<>>
    /\ Cardinality(ActiveJobs) < Concurrency
    /\ LET j == Head(waitList)
           s == queueJobs[j].sessionId
       IN  /\ waitList' = Tail(waitList)
           /\ queueJobs' = [queueJobs EXCEPT ![j].pc = "waitPrev"]
           /\ sessionLocks' = [sessionLocks EXCEPT
                  ![s] = Append(@, [job |-> j, released |-> FALSE])]
    /\ UNCHANGED <<now, workerAlive, redisUp, sessionLastSendAt, lastSendEnd,
                   jobLogs,
                   req, mgrVars, evVars>>

\* A gate passed in any order: the call goes on without `await previous`.
GateProceedUnordered(j) ==
    /\ queueJobs[j].pc = "waitPrev"
    /\ LET wait == PacingWait(queueJobs[j].sessionId)
       IN  queueJobs' = [queueJobs EXCEPT
              ![j].pc = IF wait > 0 THEN "delay" ELSE "task",
              ![j].wakeAt = IF wait > 0 THEN now + wait ELSE 0]
    /\ UNCHANGED <<now, workerAlive, redisUp, waitList, sessionLocks,
                   sessionLastSendAt, lastSendEnd, jobLogs, req, mgrVars, evVars>>

\* After `await previous`: compute the wait, then delay or call the task.
GateProceed(j) ==
    /\ queueJobs[j].pc = "waitPrev"
    /\ PreviousResolved(j)
    /\ LET wait == PacingWait(queueJobs[j].sessionId)
       IN  queueJobs' = [queueJobs EXCEPT
              ![j].pc = IF wait > 0 THEN "delay" ELSE "task",
              ![j].wakeAt = IF wait > 0 THEN now + wait ELSE 0]
    /\ UNCHANGED <<now, workerAlive, redisUp, waitList, sessionLocks,
                   sessionLastSendAt, lastSendEnd, jobLogs, req, mgrVars, evVars>>

\* The delay(wait) timer fires, never early; the task is called.
DelayDone(j) ==
    /\ queueJobs[j].pc = "delay"
    /\ now >= queueJobs[j].wakeAt
    /\ queueJobs' = [queueJobs EXCEPT ![j].pc = "task", ![j].wakeAt = 0]
    /\ UNCHANGED <<now, workerAlive, redisUp, waitList, sessionLocks,
                   sessionLastSendAt, lastSendEnd, jobLogs,
                   req, mgrVars, evVars>>

\* POST /api/internal/jobs/send, the send succeeds: a success entry under
\* the transport's message id, then 200.
InternalSendOk(j) ==
    /\ queueJobs[j].pc = "task"
    /\ jobLogs' = addJobLog(jobLogs,
          [jobId |-> WorkerMsgId(queueJobs[j].jobId.n),
           sessionId |-> queueJobs[j].sessionId,
           type |-> queueJobs[j].type, status |-> "success"])
    /\ queueJobs' = [queueJobs EXCEPT ![j].pc = "respOk"]
    /\ UNCHANGED <<now, workerAlive, redisUp, waitList, sessionLocks,
                   sessionLastSendAt, lastSendEnd,
                   req, mgrVars, evVars>>

\* POST /api/internal/jobs/send, the send throws: 400, nothing logged.
InternalSendFail(j) ==
    /\ queueJobs[j].pc = "task"
    /\ queueJobs' = [queueJobs EXCEPT ![j].pc = "respFail"]
    /\ UNCHANGED <<now, workerAlive, redisUp, waitList, sessionLocks,
                   sessionLastSendAt, lastSendEnd, jobLogs,
                   req, mgrVars, evVars>>

\* The task resolved: record the send time, release, the job completes.
TaskReturn(j) ==
    /\ queueJobs[j].pc = "respOk"
    /\ sessionLastSendAt' =
          [sessionLastSendAt EXCEPT ![queueJobs[j].sessionId] = now]
    /\ lastSendEnd' = [lastSendEnd EXCEPT ![queueJobs[j].sessionId] = now]
    /\ sessionLocks' = Released(j)
    /\ queueJobs' = [queueJobs EXCEPT ![j].pc = "completed"]
    /\ UNCHANGED <<now, workerAlive, redisUp, waitList, jobLogs,
                   req, mgrVars, evVars>>

\* A task that threw leaves runInSessionLock without calling release().
TaskThrowKeepingGate(j) ==
    /\ queueJobs[j].pc = "respFail"
    /\ lastSendEnd' = [lastSendEnd EXCEPT ![queueJobs[j].sessionId] = now]
    /\ queueJobs' = [queueJobs EXCEPT
          ![j].attemptsMade = @ + 1,
          ![j].failedReason = "Internal send API failed (400)",
          ![j].pc = IF queueJobs[j].attemptsMade + 1 < Attempts
                    THEN "delayed" ELSE "failed"]
    /\ UNCHANGED <<now, workerAlive, redisUp, waitList, sessionLocks,
                   sessionLastSendAt, jobLogs, req, mgrVars, evVars>>

\* The task threw (response not ok): release only; BullMQ counts the attempt
\* and retries after its backoff or fails the job.  The worker's "failed"
\* listener writes to the console.
TaskThrow(j) ==
    /\ queueJobs[j].pc = "respFail"
    /\ lastSendEnd' = [lastSendEnd EXCEPT ![queueJobs[j].sessionId] = now]
    /\ sessionLocks' = Released(j)
    /\ queueJobs' = [queueJobs EXCEPT
          ![j].attemptsMade = @ + 1,
          ![j].failedReason = "Internal send API failed (400)",
          ![j].pc = IF queueJobs[j].attemptsMade + 1 < Attempts
                    THEN "delayed" ELSE "failed"]
    /\ UNCHANGED <<now, workerAlive, redisUp, waitList, sessionLastSendAt,
                   jobLogs,
                   req, mgrVars, evVars>>

\* BullMQ's backoff elapsed: the job returns to the wait list.
RetryReady(j) ==
    /\ queueJobs[j].pc = "delayed"
    /\ redisUp
    /\ queueJobs' = [queueJobs EXCEPT ![j].pc = "waiting"]
    /\ waitList' = Append(waitList, j)
    /\ UNCHANGED <<now, workerAlive, redisUp, sessionLocks, sessionLastSendAt,
                   lastSendEnd, jobLogs,
                   req, mgrVars, evVars>>

Tick ==
    /\ now < MaxNow
    /\ now' = now + TickMs
    /\ UNCHANGED <<workerAlive, redisUp, queueJobs, waitList, sessionLocks,
                   sessionLastSendAt, lastSendEnd, jobLogs,
                   req, mgrVars, evVars>>

\* Time passes while a delay(wait) timer is pending, however late it is.
DelayTick ==
    /\ \E j \in JobIds : queueJobs[j].pc = "delay" /\ queueJobs[j].wakeAt > now
    /\ now' = now + TickMs
    /\ UNCHANGED <<workerAlive, redisUp, queueJobs, waitList, sessionLocks,
                   sessionLastSendAt, lastSendEnd, jobLogs,
                   req, mgrVars, evVars>>

(***************************************************************************)
(* The send pipeline: POST /api/v1/messages/text, enqueueTextJob and       *)
(* sendDirect.  enqueueMediaJob is enqueueTextJob with the job name        *)
(* "send-media" and the type "media".                                      *)
(***************************************************************************)
IdleReq ==
    [pc |-> "idle", sessionId |-> "A", type |-> "text", jobId |-> Uuid(0),
     workerReady |-> "unknown", addFailed |-> FALSE, status |-> 0,
     error |-> ""]

\* isQueueWorkerAvailable: getWorkers().length > 0, false when it throws.
isQueueWorkerAvailable == redisUp /\ workerAlive

\* sendDirect's job id.
DirectJobIdPlain(r) == Uuid(r)

DirectJobId(r) == DirectId(r)

\* The route's catch block: 503 for a QueueUnavailableError, else 400.
FailStatus(error) == IF error = "QueueUnavailableError" THEN 503 ELSE 400

\* The request arrives, the body parses; enqueue draws its job id and
\* probes for a worker.
ApiPost(r, s) ==
    /\ req[r].pc = "idle"
    /\ \A q \in 1..(r - 1) : req[q].pc # "idle"
    /\ req' = [req EXCEPT ![r] = [@ EXCEPT !.pc = "probe", !.sessionId = s,
                                            !.jobId = Uuid(r)]]
    /\ UNCHANGED <<workerVars, mgrVars, evVars>>

\* The body does not parse: 400, nothing else happens.
ApiPostInvalid(r) ==
    /\ req[r].pc = "idle"
    /\ \A q \in 1..(r - 1) : req[q].pc # "idle"
    /\ req' = [req EXCEPT ![r] = [@ EXCEPT !.pc = "done",
                  !.error = "ValidationError",
                  !.status = FailStatus("ValidationError")]]
    /\ UNCHANGED <<workerVars, mgrVars, evVars>>

\* The probe returns.  No worker: sendDirect starts the send.  A worker:
\* queue.add is issued.
ProbeReturn(r) ==
    /\ req[r].pc = "probe"
    /\ IF isQueueWorkerAvailable
       THEN req' = [req EXCEPT ![r] = [@ EXCEPT !.pc = "adding",
                                                !.workerReady = "yes"]]
       ELSE req' = [req EXCEPT ![r] = [@ EXCEPT !.pc = "directSend",
                                                !.workerReady = "no",
                                                !.jobId = DirectJobId(r)]]
    /\ UNCHANGED <<workerVars, mgrVars, evVars>>

\* queue.add reaches the backend: the job is in the queue.
QueueAddCommit(r) ==
    /\ req[r].pc = "adding"
    /\ redisUp
    /\ queueJobs' = Append(queueJobs,
          NewJob(req[r].sessionId, req[r].type, req[r].jobId))
    /\ waitList' = Append(waitList, Len(queueJobs) + 1)
    /\ req' = [req EXCEPT ![r].pc = "added"]
    /\ UNCHANGED <<now, workerAlive, redisUp, sessionLocks, sessionLastSendAt,
                   lastSendEnd, jobLogs, mgrVars, evVars>>

\* An enqueue that goes on to sendDirect after queue.add resolved.
QueueAddReturnThenDirect(r) ==
    /\ req[r].pc = "added"
    /\ req' = [req EXCEPT ![r] = [@ EXCEPT !.pc = "directSend",
                                           !.jobId = DirectJobId(r)]]
    /\ UNCHANGED <<workerVars, mgrVars, evVars>>

\* queue.add resolves: enqueue returns the job id, the route logs `queued`
\* and answers 200.
QueueAddReturn(r) ==
    /\ req[r].pc = "added"
    /\ jobLogs' = addJobLog(jobLogs,
          [jobId |-> req[r].jobId, sessionId |-> req[r].sessionId,
           type |-> req[r].type, status |-> "queued"])
    /\ req' = [req EXCEPT ![r] = [@ EXCEPT !.pc = "done", !.status = 200]]
    /\ UNCHANGED <<now, workerAlive, redisUp, queueJobs, waitList,
                   sessionLocks, sessionLastSendAt, lastSendEnd, mgrVars, evVars>>

\* queue.add rejects (backend unreachable): the catch block calls sendDirect.
QueueAddFail(r) ==
    /\ req[r].pc = "adding"
    /\ ~redisUp
    /\ req' = [req EXCEPT ![r] = [@ EXCEPT !.pc = "directSend",
                                           !.addFailed = TRUE,
                                           !.jobId = DirectJobId(r)]]
    /\ UNCHANGED <<workerVars, mgrVars, evVars>>

\* sendDirect's send resolves: a success entry under the message id;
\* enqueue returns the direct job id; the route logs `queued`, answers 200.
DirectSendOk(r) ==
    /\ req[r].pc = "directSend"
    /\ jobLogs' = addJobLog(
          addJobLog(jobLogs,
             [jobId |-> DirectMsgId(r), sessionId |-> req[r].sessionId,
              type |-> req[r].type, status |-> "success"]),
          [jobId |-> req[r].jobId, sessionId |-> req[r].sessionId,
           type |-> req[r].type, status |-> "queued"])
    /\ req' = [req EXCEPT ![r] = [@ EXCEPT !.pc = "done", !.status = 200]]
    /\ UNCHANGED <<now, workerAlive, redisUp, queueJobs, waitList,
                   sessionLocks, sessionLastSendAt, lastSendEnd, mgrVars, evVars>>

\* sendDirect's send throws: the error reaches the route's catch block.
DirectSendFail(r) ==
    /\ req[r].pc = "directSend"
    /\ req' = [req EXCEPT ![r] = [@ EXCEPT !.pc = "done",
                  !.error = "TransportSendError",
                  !.status = FailStatus("TransportSendError")]]
    /\ UNCHANGED <<workerVars, mgrVars, evVars>>

\* The environment: the worker process starts, or shuts down once its
\* active jobs are finished (worker.close()); the backend goes and comes.
WorkerStart ==
    /\ ~workerAlive
    /\ workerAlive' = TRUE
    /\ UNCHANGED <<now, redisUp, queueJobs, waitList, sessionLocks,
                   sessionLastSendAt, lastSendEnd, jobLogs, req, mgrVars, evVars>>

WorkerShutdown ==
    /\ workerAlive
    /\ ActiveJobs = {}
    /\ workerAlive' = FALSE
    /\ UNCHANGED <<now, redisUp, queueJobs, waitList, sessionLocks,
                   sessionLastSendAt, lastSendEnd, jobLogs, req, mgrVars, evVars>>

RedisDown ==
    /\ redisUp
    /\ redisUp' = FALSE
    /\ UNCHANGED <<now, workerAlive, queueJobs, waitList, sessionLocks,
                   sessionLastSendAt, lastSendEnd, jobLogs, req, mgrVars, evVars>>

RedisBack ==
    /\ ~redisUp
    /\ redisUp' = TRUE
    /\ UNCHANGED <<now, workerAlive, queueJobs, waitList, sessionLocks,
                   sessionLastSendAt, lastSendEnd, jobLogs, req, mgrVars, evVars>>

(***************************************************************************)
(* The status store's session record (statusStore.ts), for the one session *)
(* id of the manager model.  An omitted or undefined field is Undef (for   *)
(* reconnectAttempts: NoAttempts); an absent record has every field so.    *)
(***************************************************************************)
Undef == "undefined"
NoAttempts == 0 - 1

Patch(status, qr, lastError, attempts) ==
    [status |-> status, qr |-> qr, lastError |-> lastError,
     reconnectAttempts |-> attempts]

\* was is history: the status the record had before its current one.
NoRecord ==
    [exists |-> FALSE, status |-> Undef, qr |-> Undef, lastError |-> Undef,
     reconnectAttempts |-> NoAttempts, was |-> Undef]

\* a ?? b
Nullish(a, b) == IF a # Undef THEN a ELSE b

\* An upsert merged the wrong way round: previous ?? patch.
upsertSessionPreviousFirst(previous, patch) ==
    LET status == Nullish(previous.status, Nullish(patch.status, "unknown"))
    IN  [exists |-> TRUE,
         status |-> status,
         was |-> previous.was,
         qr |-> Nullish(previous.qr, patch.qr),
         lastError |-> Nullish(previous.lastError, patch.lastError),
         reconnectAttempts |->
            IF previous.reconnectAttempts # NoAttempts
            THEN previous.reconnectAttempts
            ELSE IF patch.reconnectAttempts # NoAttempts
                 THEN patch.reconnectAttempts
                 ELSE 0]

\* An upsert whose ready and authenticated patches clear lastError only.
upsertSessionKeepingQr(previous, patch) ==
    LET clear == patch.status \in {"ready", "authenticated"}
        status == Nullish(patch.status, Nullish(previous.status, "unknown"))
    IN  [exists |-> TRUE,
         status |-> status,
         was |-> IF status = previous.status THEN previous.was
                 ELSE previous.status,
         qr |-> Nullish(patch.qr, previous.qr),
         lastError |-> IF clear THEN Undef
                       ELSE Nullish(patch.lastError, previous.lastError),
         reconnectAttempts |->
            IF patch.reconnectAttempts # NoAttempts
            THEN patch.reconnectAttempts
            ELSE IF previous.reconnectAttempts # NoAttempts
                 THEN previous.reconnectAttempts
                 ELSE 0]

\* upsertSession: the patch over the previous record (or the defaults);
\* ready and authenticated clear qr and lastError.
upsertSession(previous, patch) ==
    LET clear == patch.status \in {"ready", "authenticated"}
        status == Nullish(patch.status, Nullish(previous.status, "unknown"))
    IN  [exists |-> TRUE,
         status |-> status,
         was |-> IF status = previous.status THEN previous.was
                 ELSE previous.status,
         qr |-> IF clear THEN Undef ELSE Nullish(patch.qr, previous.qr),
         lastError |-> IF clear THEN Undef
                       ELSE Nullish(patch.lastError, previous.lastError),
         reconnectAttempts |->
            IF patch.reconnectAttempts # NoAttempts
            THEN patch.reconnectAttempts
            ELSE IF previous.reconnectAttempts # NoAttempts
                 THEN previous.reconnectAttempts
                 ELSE 0]

(***************************************************************************)
(* The session manager (manager.ts), for one session id.  A context and    *)
(* its connection object share an index.  chain is the pending             *)
(* initializeWithRecovery(...).then().catch().finally() of the context:    *)
(* its phase (the await it is at), who built it, and the replacement it    *)
(* created on a lock conflict.  reconnects[b] is the reconnect() call made  *)
(* by the timer callback of context b (b = 0: by the reconnect route): the  *)
(* await it is at and the context it found installed.                       *)
(***************************************************************************)
NoChain == [phase |-> "none", kind |-> "none", by |-> 0, repl |-> 0]
NoRecon == [phase |-> "none", target |-> 0]

\* delayMs is the delay the context's timer was last armed with.
NoContext ==
    [created |-> FALSE, reconnectAttempts |-> 0, isInitialized |-> FALSE,
     reconnectTimer |-> "none", delayMs |-> 0, chain |-> NoChain]

NewContext(attempts) == [NoContext EXCEPT !.created = TRUE,
                                          !.reconnectAttempts = attempts]

ClientIds == 1..MaxClients
CallerIds == 1..MaxCallers

\* A history counter of initialize() calls: 0, 1, 2 (two or more).
CountUp(n) == IF n < 2 THEN n + 1 ELSE n

\* client.initialize() is called on connection object k.
Initializing(cl, k) ==
    [cl EXCEPT ![k].state = "running", ![k].initCalls = CountUp(@)]

\* A guard that starts an initialization whatever is in flight.
NoInitInFlightAlways(c) == TRUE

\* !context.initializePromise
NoInitInFlight(c) == ctx[c].chain.phase = "none"

\* getOrCreateContext: the installed context, or a new one (new connection
\* object, callbacks attached, installed, status `connecting`).
CanGetContext == sessions # 0 \/ nextClient < MaxClients
GotContext == IF sessions # 0 THEN sessions ELSE nextClient + 1
GotCtx ==
    IF sessions # 0 THEN ctx ELSE [ctx EXCEPT ![nextClient + 1] = NewContext(0)]
GotClients ==
    IF sessions # 0 THEN clients
    ELSE [clients EXCEPT ![nextClient + 1].state = "new"]
GotNext == IF sessions # 0 THEN nextClient ELSE nextClient + 1
\* A getOrCreateContext that leaves the record alone.
GotStoreUntouched == store

GotStore ==
    IF sessions # 0 THEN store
    ELSE upsertSession(store, Patch("connecting", Undef, Undef, 0))

\* A delay without the cap.
ReconnectDelayUncapped(attempts) == 2 ^ attempts * 1000

\* Math.min(MAX_RECONNECT_DELAY_MS, 2 ** context.reconnectAttempts * 1000)
ReconnectDelay(attempts) ==
    IF 2 ^ attempts * 1000 < MAX_RECONNECT_DELAY_MS
    THEN 2 ^ attempts * 1000 ELSE MAX_RECONNECT_DELAY_MS

\* scheduleReconnect(sessionId, context c), on contexts cx and record st.
ScheduledCtx(c, cx) ==
    IF cx[c].reconnectTimer # "none" THEN cx
    ELSE [cx EXCEPT ![c].reconnectAttempts = @ + 1,
                    ![c].delayMs = ReconnectDelay(cx[c].reconnectAttempts + 1),
                    ![c].reconnectTimer = "armed"]
ScheduledStore(c, cx, st) ==
    IF cx[c].reconnectTimer # "none" THEN st
    ELSE upsertSession(st, Patch("connecting", Undef, Undef,
                                 cx[c].reconnectAttempts + 1))

\* ensureSession, up to its await.
EnsureSession(i) ==
    /\ callers[i].pc = "idle"
    /\ \A h \in 1..(i - 1) : callers[h].pc # "idle"
    /\ CanGetContext
    /\ LET c == GotContext
           start == ~GotCtx[c].isInitialized /\ NoInitInFlight(c)
       IN  /\ sessions' = c
           /\ nextClient' = GotNext
           /\ store' = GotStore
           /\ ctx' = IF start
                     THEN [GotCtx EXCEPT ![c].chain =
                             [NoChain EXCEPT !.phase = "init", !.kind = "ensure"]]
                     ELSE GotCtx
           /\ clients' = IF start THEN Initializing(GotClients, c) ELSE GotClients
           /\ callers' = [callers EXCEPT ![i] =
                 IF GotCtx[c].isInitialized
                 THEN [pc |-> "returned", ctx |-> c, path |-> "initialized",
                       error |-> Undef]
                 ELSE [pc |-> "await", ctx |-> c, path |-> "awaited",
                       error |-> Undef]]
    /\ UNCHANGED <<logoutTask, reconnects, emitted, workerVars, req, evVars>>

\* startSession: starts the initialization unless the context is
\* initialized or has one in flight; returns at once.
StartSession ==
    /\ CanGetContext
    /\ LET c == GotContext
           start == ~GotCtx[c].isInitialized /\ NoInitInFlight(c)
       IN  /\ sessions' = c
           /\ nextClient' = GotNext
           /\ store' = GotStore
           /\ ctx' = IF start
                     THEN [GotCtx EXCEPT ![c].chain =
                             [NoChain EXCEPT !.phase = "init", !.kind = "start"]]
                     ELSE GotCtx
           /\ clients' = IF start THEN Initializing(GotClients, c) ELSE GotClients
    /\ UNCHANGED <<callers, logoutTask, reconnects, emitted, workerVars, req, evVars>>

\* A getSessionState that creates the record as getOrCreateContext does.
GetSessionStateConnecting ==
    /\ ~store.exists
    /\ store' = upsertSession(store, Patch("connecting", Undef, Undef, 0))
    /\ UNCHANGED <<sessions, ctx, clients, nextClient, callers, logoutTask,
                   reconnects, emitted, workerVars, req, evVars>>

\* getSessionState: the record, created with status `unknown` if absent.
GetSessionState ==
    /\ ~store.exists
    /\ store' = upsertSession(store, Patch("unknown", Undef, Undef, 0))
    /\ UNCHANGED <<sessions, ctx, clients, nextClient, callers, logoutTask,
                   reconnects, emitted, workerVars, req, evVars>>

\* The body of discoverSessions' loop for the session id: getOrCreateContext,
\* then the record patched with the status it has (or `unknown`).
Discovered ==
    /\ sessions' = GotContext
    /\ nextClient' = GotNext
    /\ ctx' = GotCtx
    /\ clients' = GotClients
    /\ store' = upsertSession(GotStore,
                              Patch(Nullish(GotStore.status, "unknown"),
                                    Undef, Undef, NoAttempts))

\* discoverSessions, the data directory holding the directory of the
\* session id.
DiscoverSessions ==
    /\ CanGetContext
    /\ Discovered
    /\ UNCHANGED <<callers, logoutTask, reconnects, emitted, workerVars, req, evVars>>

(***************************************************************************)
(* The initialization settles: then / catch / finally of the chain of      *)
(* context c, and the resumption of everything that awaits its promise.    *)
(***************************************************************************)
\* A resumption in which every failure is rethrown to the awaiting calls.
ResumedRethrowing(c, ok) ==
    [i \in CallerIds |->
        IF callers[i].pc = "await" /\ callers[i].ctx = c
        THEN [callers[i] EXCEPT !.pc = IF ok THEN "returned" ELSE "threw"]
        ELSE callers[i]]

\* The ensureSession calls awaiting context c's promise resume.  A promise
\* built by startSession resolves after a failure too (its catch swallows).
Resumed(c, ok) ==
    [i \in CallerIds |->
        IF callers[i].pc = "await" /\ callers[i].ctx = c
        THEN [callers[i] EXCEPT
                 !.pc = IF ok \/ ctx[c].chain.kind = "start"
                        THEN "returned" ELSE "threw"]
        ELSE callers[i]]

\* The contexts after the chain of c settled, before any rescheduling.
SettledCtx(c, ok) ==
    LET r == ctx[c].chain.repl
        cx == IF ok /\ ctx[c].chain.phase = "init2"
              THEN [ctx EXCEPT ![r].isInitialized = TRUE] ELSE ctx
    IN  [cx EXCEPT ![c].isInitialized = ok, ![c].chain = NoChain]

\* The messages client.initialize() rejects with: the browser-lock error
\* and any other; LockHint is the first with the advice appended.
BrowserLockError == "The browser is already running for session-main."
InitError == "init failed"
LockHint == "The browser is already running for session-main. Stop other Next/worker processes using this session, then retry."

isBrowserLockError(error) == error = BrowserLockError

\* A normalisation that adds no advice.
normalizeInitErrorRaw(error) == error

normalizeInitError(error) ==
    IF isBrowserLockError(error) THEN LockHint ELSE error

\* The timer callback of context b, when the reconnect it awaited threw.
TimerCatchStore(b, st, message) ==
    upsertSession(st, Patch("disconnected", Undef, message,
                            ctx[b].reconnectAttempts))

\* The chain of context c settles: resolved (ok), or rejected with error.
Settle(c, ok, error) ==
    LET kind == ctx[c].chain.kind
        by == ctx[c].chain.by
        cx == SettledCtx(c, ok)
        timerCatch == ~ok /\ kind = "reconnect" /\ by # 0
        message == normalizeInitError(error)
    IN  /\ callers' = [i \in CallerIds |->
              IF callers[i].pc = "await" /\ Resumed(c, ok)[i].pc = "threw"
              THEN [Resumed(c, ok)[i] EXCEPT !.error = message]
              ELSE Resumed(c, ok)[i]]
        /\ clients' = [clients EXCEPT
              ![IF ctx[c].chain.phase = "init2" THEN ctx[c].chain.repl ELSE c]
                  .settled = TRUE]
        /\ reconnects' = IF kind = "reconnect"
                         THEN [reconnects EXCEPT ![by] = NoRecon]
                         ELSE reconnects
        /\ ctx' = IF timerCatch THEN ScheduledCtx(by, cx) ELSE cx
        /\ store' =
              IF timerCatch
              THEN ScheduledStore(by, cx, TimerCatchStore(by, store, message))
              ELSE IF ~ok /\ kind = "start"
                   THEN upsertSession(store,
                           Patch("disconnected", Undef, message, NoAttempts))
                   ELSE store

\* client.initialize() resolves.
InitResolve(c) ==
    /\ ctx[c].chain.phase \in {"init", "init2"}
    /\ Settle(c, TRUE, Undef)
    /\ UNCHANGED <<sessions, nextClient, logoutTask, emitted, workerVars, req, evVars>>

\* client.initialize() rejects with an error that is not the browser-lock
\* error.
InitReject(c) ==
    /\ ctx[c].chain.phase \in {"init", "init2"}
    /\ Settle(c, FALSE, InitError)
    /\ UNCHANGED <<sessions, nextClient, logoutTask, emitted, workerVars, req, evVars>>

\* initialize() of the replacement rejects with the browser-lock error
\* again: it leaves initializeWithRecovery.
InitRejectLockAgain(c) ==
    /\ ctx[c].chain.phase = "init2"
    /\ Settle(c, FALSE, BrowserLockError)
    /\ UNCHANGED <<sessions, nextClient, logoutTask, emitted, workerVars, req, evVars>>

(***************************************************************************)
(* The lifecycle callbacks attached to connection object k (attachEvents). *)
(***************************************************************************)
\* MaxEvents caps the callbacks delivered in a behaviour of the model.
CanEmit(k) == clients[k].state = "running" /\ emitted < MaxEvents

OnQr(k) ==
    /\ CanEmit(k)
    /\ emitted' = emitted + 1
    /\ store' = upsertSession(store, Patch("qr", "qr-payload", Undef, NoAttempts))
    /\ UNCHANGED <<sessions, ctx, clients, nextClient, callers, logoutTask,
                   reconnects, workerVars, req, evVars>>

\* An authenticated/ready callback that leaves the record's count alone.
OnUpKeepingCount(k, status) ==
    /\ CanEmit(k)
    /\ emitted' = emitted + 1
    /\ ctx' = [ctx EXCEPT ![k].isInitialized = TRUE, ![k].reconnectAttempts = 0]
    /\ store' = upsertSession(store, Patch(status, Undef, Undef, NoAttempts))
    /\ UNCHANGED <<sessions, clients, nextClient, callers, logoutTask,
                   reconnects, workerVars, req, evVars>>

\* authenticated and ready
OnUp(k, status) ==
    /\ CanEmit(k)
    /\ emitted' = emitted + 1
    /\ ctx' = [ctx EXCEPT ![k].isInitialized = TRUE, ![k].reconnectAttempts = 0]
    /\ store' = upsertSession(store, Patch(status, Undef, Undef, 0))
    /\ UNCHANGED <<sessions, clients, nextClient, callers, logoutTask,
                   reconnects, workerVars, req, evVars>>

\* auth_failure and disconnected
OnDown(k, status) ==
    /\ CanEmit(k)
    /\ emitted' = emitted + 1
    /\ LET cx == [ctx EXCEPT ![k].isInitialized = FALSE]
           st == upsertSession(store, Patch(status, Undef, "callback error",
                                            NoAttempts))
       IN  /\ ctx' = ScheduledCtx(k, cx)
           /\ store' = ScheduledStore(k, cx, st)
    /\ UNCHANGED <<sessions, clients, nextClient, callers, logoutTask,
                   reconnects, workerVars, req, evVars>>

(***************************************************************************)
(* Lock recovery (initializeWithRecovery): the first initialize() of a     *)
(* chain rejects with the browser-lock error; the old object is destroyed  *)
(* (errors ignored), a replacement context is installed and initialized.   *)
(***************************************************************************)
InitRejectLock(c) ==
    /\ ctx[c].chain.phase = "init"
    /\ ctx' = [ctx EXCEPT ![c].chain.phase = "recoverDestroy"]
    /\ UNCHANGED <<sessions, clients, nextClient, store, callers, logoutTask,
                   reconnects, emitted, workerVars, req, evVars>>

\* A replacement that starts with a count of its own.
ReplacedFresh(t, k, ok, chain) ==
    /\ sessions' = k
    /\ nextClient' = k
    /\ ctx' = [ctx EXCEPT ![k] = [NewContext(0) EXCEPT !.chain = chain]]
    /\ clients' = Initializing(
          [clients EXCEPT ![t].state = IF ok THEN "destroyed" ELSE @], k)

\* The replacement of context t: a new connection object with t's attempt
\* count, callbacks attached, installed, initialize() called on it.
Replaced(t, k, ok, chain) ==
    /\ sessions' = k
    /\ nextClient' = k
    /\ ctx' = [ctx EXCEPT ![k] = [NewContext(ctx[t].reconnectAttempts)
                                    EXCEPT !.chain = chain]]
    /\ clients' = Initializing(
          [clients EXCEPT ![t].state = IF ok THEN "destroyed" ELSE @], k)

RecoverDestroySettle(c, ok) ==
    /\ ctx[c].chain.phase = "recoverDestroy"
    /\ nextClient < MaxClients
    /\ LET k == nextClient + 1
       IN  /\ sessions' = k
           /\ nextClient' = k
           /\ ctx' = [ctx EXCEPT ![k] = NewContext(ctx[c].reconnectAttempts),
                                 ![c].chain.phase = "init2",
                                 ![c].chain.repl = k]
           /\ clients' = Initializing(
                 [clients EXCEPT ![c].state = IF ok THEN "destroyed" ELSE @], k)
    /\ UNCHANGED <<store, callers, logoutTask, reconnects, emitted, workerVars, req, evVars>>

(***************************************************************************)
(* reconnect(sessionId), called by the reconnect route (b = 0) or by the   *)
(* timer callback of context b.                                            *)
(***************************************************************************)
\* Up to `await context.client.destroy()`; cx are the contexts at the call.
ReconnectCall(b, cx) ==
    /\ reconnects[b].phase = "none"
    /\ CanGetContext
    /\ sessions' = GotContext
    /\ nextClient' = GotNext
    /\ clients' = GotClients
    /\ ctx' = IF sessions # 0 THEN cx
              ELSE [cx EXCEPT ![nextClient + 1] = NewContext(0)]
    /\ store' = upsertSession(GotStore,
                              Patch("connecting", Undef, Undef, NoAttempts))
    /\ reconnects' = [reconnects EXCEPT
                         ![b] = [phase |-> "destroy", target |-> GotContext]]

ManualReconnect ==
    /\ ReconnectCall(0, ctx)
    /\ UNCHANGED <<callers, logoutTask, emitted, workerVars, req, evVars>>

\* The timer of context c fires: the handle is dropped, reconnect is called.
TimerFire(c) ==
    /\ ctx[c].reconnectTimer = "armed"
    /\ ReconnectCall(c, [ctx EXCEPT ![c].reconnectTimer = "none"])
    /\ UNCHANGED <<callers, logoutTask, emitted, workerVars, req, evVars>>

\* destroy() of the old object settles (errors ignored); the replacement is
\* installed and its initialization promise built and awaited.
ReconnectDestroySettle(b, ok) ==
    /\ reconnects[b].phase = "destroy"
    /\ nextClient < MaxClients
    /\ Replaced(reconnects[b].target, nextClient + 1, ok,
                [NoChain EXCEPT !.phase = "init", !.kind = "reconnect", !.by = b])
    /\ reconnects' = [reconnects EXCEPT ![b].phase = "init"]
    /\ UNCHANGED <<store, callers, logoutTask, emitted, workerVars, req, evVars>>

(***************************************************************************)
(* logout(sessionId).                                                      *)
(***************************************************************************)
LogoutCall ==
    /\ logoutTask.pc = "idle"
    /\ IF sessions = 0
       THEN /\ logoutTask' = [logoutTask EXCEPT !.pc = "done"]
            /\ ctx' = ctx
       ELSE /\ logoutTask' = [logoutTask EXCEPT !.pc = "logout",
                                                !.ctx = sessions]
            /\ ctx' = [ctx EXCEPT ![sessions].reconnectTimer =
                          IF @ = "armed" THEN "cleared" ELSE @]
    /\ UNCHANGED <<sessions, clients, nextClient, store, callers, reconnects,
                   emitted, workerVars, req, evVars>>

\* client.logout() settles.
LogoutSettle(ok) ==
    /\ logoutTask.pc = "logout"
    /\ logoutTask' = [logoutTask EXCEPT !.pc = IF ok THEN "destroy" ELSE "threw"]
    /\ UNCHANGED <<sessions, ctx, clients, nextClient, store, callers,
                   reconnects, emitted, workerVars, req, evVars>>

\* client.destroy() resolves: the entry of the id is deleted, the record
\* patched.
LogoutDestroyed ==
    /\ logoutTask.pc = "destroy"
    /\ logoutTask' = [logoutTask EXCEPT !.pc = "done"]
    /\ clients' = [clients EXCEPT ![logoutTask.ctx].state = "destroyed"]
    /\ sessions' = 0
    /\ store' = upsertSession(store, Patch("disconnected", Undef, Undef, 0))
    /\ UNCHANGED <<ctx, nextClient, callers, reconnects, emitted, workerVars, req, evVars>>

\* client.destroy() rejects: logout throws.
LogoutDestroyFailed ==
    /\ logoutTask.pc = "destroy"
    /\ logoutTask' = [logoutTask EXCEPT !.pc = "threw"]
    /\ UNCHANGED <<sessions, ctx, clients, nextClient, store, callers,
                   reconnects, emitted, workerVars, req, evVars>>

InitMgr ==
    /\ sessions = 0
    /\ ctx = [c \in ClientIds |-> NoContext]
    /\ clients = [k \in ClientIds |-> [state |-> "none", initCalls |-> 0, settled |-> FALSE]]
    /\ nextClient = 0
    /\ store = NoRecord
    /\ callers = [i \in CallerIds |-> [pc |-> "idle", ctx |-> 0, path |-> "none", error |-> Undef]]
    /\ logoutTask = [pc |-> "idle", ctx |-> 0]
    /\ reconnects = [b \in 0..MaxClients |-> NoRecon]
    /\ emitted = 0

(***************************************************************************)
(* The event store (eventStore.ts): the message ring buffer with its two   *)
(* indexes, the event log and the bus.  A message object is named by its   *)
(* arrival number (nextId counts the objects pushed): the containers hold  *)
(* these names, and objects holds the fields, which updateMessageAck       *)
(* changes in place for every container at once.  A message the transport  *)
(* delivers once carries its arrival number as id.                         *)
(***************************************************************************)
\* maxMessages is 2000 in the source; the exploration scales it down.
maxMessages == MaxMessages
maxEvents == 5000

Peers == {"peerA", "peerB"}
Me == "me"
ChatIds == Peers \cup {Me}
\* One id more than is ever pushed: an id the store never saw.
MsgIds == 1..(MaxMessages + MaxOverflow + 1)
ListenerIds == 1..MaxListeners
AckRead == 3

NoObject == [id |-> 0, from |-> Undef, to |-> Undef, fromMe |-> FALSE, ack |-> 0]

WaMessage(id, fromMe, peer) ==
    [id |-> id,
     from |-> IF fromMe THEN Me ELSE peer,
     to |-> IF fromMe THEN peer ELSE Me,
     fromMe |-> fromMe,
     ack |-> 0]

\* msg.fromMe ? msg.to : msg.from
ChatIdOf(msg) == IF msg.fromMe THEN msg.to ELSE msg.from

\* rChat.findIndex((m) => m.id === id): the first position, 0 for -1.
FindIndex(chat, id, objs) ==
    LET hits == {j \in 1..Len(chat) : objs[chat[j]].id = id}
    IN  IF hits = {} THEN 0 ELSE CHOOSE j \in hits : \A h \in hits : j <= h

\* A splice that removes nothing.
SpliceNothing(chat, idx) == chat

\* rChat.splice(idx, 1)
Splice(chat, idx) ==
    [j \in 1..(Len(chat) - 1) |-> IF j < idx THEN chat[j] ELSE chat[j + 1]]

\* list.slice(-n) for a number n >= 0; slice(-0) is slice(0), the whole list.
SliceLast(list, n) ==
    IF n = 0 \/ n >= Len(list) THEN list
    ELSE SubSeq(list, Len(list) - n + 1, Len(list))

\* An emit that lets a listener's exception escape the loop.
RECURSIVE DeliverUncaught(_, _)
DeliverUncaught(rest, throwers) ==
    IF rest = <<>> THEN <<>>
    ELSE IF Head(rest) \in throwers THEN <<Head(rest)>>
         ELSE <<Head(rest)>> \o DeliverUncaught(Tail(rest), throwers)

\* The loop of emit over the listeners in insertion order: the listeners it
\* invokes, when those in throwers throw.
RECURSIVE Deliver(_, _)
Deliver(rest, throwers) ==
    IF rest = <<>> THEN <<>>
    ELSE <<Head(rest)>> \o Deliver(Tail(rest), throwers)

\* bus.emit(event): invoked and thrown are history of the last emit.
emit(b, event, throwers) ==
    [b EXCEPT !.event = event,
              !.invoked = Deliver(b.listeners, throwers),
              !.thrown = {l \in throwers :
                            \E j \in 1..Len(Deliver(b.listeners, throwers)) :
                               Deliver(b.listeners, throwers)[j] = l}]

\* pushEvent: the log, trimmed to maxEvents.
PushedEvents(events, event) ==
    IF Len(events) + 1 > maxEvents THEN Tail(Append(events, event))
    ELSE Append(events, event)

\* pushMessage, up to pushEvent.
pushMessage(es, msg) ==
    LET chatId == ChatIdOf(msg)
        objs == [es.objects EXCEPT ![es.nextId] = msg]
        byId == [es.messagesById EXCEPT ![msg.id] = es.nextId]
        byChat == [es.messagesByChat EXCEPT ![chatId] = Append(@, es.nextId)]
        list == Append(es.messageList, es.nextId)
        removed == objs[Head(list)]
        rChatId == ChatIdOf(removed)
        idx == FindIndex(byChat[rChatId], removed.id, objs)
    IN  IF Len(list) > maxMessages
        THEN [es EXCEPT
                 !.objects = objs,
                 !.messageList = Tail(list),
                 !.messagesById = [byId EXCEPT ![removed.id] = 0],
                 !.messagesByChat =
                     IF idx # 0
                     THEN [byChat EXCEPT ![rChatId] = Splice(@, idx)]
                     ELSE byChat]
        ELSE [es EXCEPT !.objects = objs, !.messageList = list,
                        !.messagesById = byId, !.messagesByChat = byChat]

\* An ack update that reaches the bus only when the message is stored.
updateMessageAckStoredOnly(es, b, ack, throwers) ==
    LET existing == es.messagesById[ack.messageId]
        logged == [es EXCEPT !.events = PushedEvents(@, "message_ack")]
    IN  IF existing = 0
        THEN [store |-> logged, bus |-> b]
        ELSE [store |-> [logged EXCEPT !.objects[existing].ack = ack.ack],
              bus |-> emit(b, [type |-> "message_ack", id |-> ack.messageId],
                           throwers)]

\* updateMessageAck: the store and the bus after it.
updateMessageAck(es, b, ack, throwers) ==
    LET existing == es.messagesById[ack.messageId]
        acked == IF existing # 0
                 THEN [es EXCEPT !.objects[existing].ack = ack.ack]
                 ELSE es
    IN  [store |-> [acked EXCEPT !.events = PushedEvents(@, "message_ack")],
         bus |-> emit(b, [type |-> "message_ack", id |-> ack.messageId],
                      throwers)]

getMessage(id) == eventStore.messagesById[id]
getChatMessages(chatId, limit) == SliceLast(eventStore.messagesByChat[chatId], limit)
getRecentMessages(limit) == SliceLast(eventStore.messageList, limit)

Subscribed == {bus.listeners[j] : j \in 1..Len(bus.listeners)}
AckEvents == {j \in 1..Len(eventStore.events) : eventStore.events[j] = "message_ack"}

\* The transport delivers a message: pushMessage with the next id.
PushMessage(fromMe, peer, throwers) ==
    /\ eventStore.nextId <= MaxMessages + MaxOverflow
    /\ throwers \subseteq Subscribed
    /\ LET msg == WaMessage(eventStore.nextId, fromMe, peer)
           es == pushMessage(eventStore, msg)
       IN  /\ eventStore' = [es EXCEPT !.nextId = @ + 1,
                                       !.events = PushedEvents(@, "message")]
           /\ bus' = emit(bus, [type |-> "message", id |-> msg.id], throwers)
    /\ UNCHANGED <<workerVars, req, mgrVars>>

\* pushMessage is called again with an id it was called with before (the
\* same message reported by a second event of the transport).
PushRepeated(id, fromMe, peer, throwers) ==
    /\ eventStore.nextId <= MaxMessages + MaxOverflow
    /\ id < eventStore.nextId
    /\ throwers \subseteq Subscribed
    /\ LET msg == WaMessage(id, fromMe, peer)
           es == pushMessage(eventStore, msg)
       IN  /\ eventStore' = [es EXCEPT !.nextId = @ + 1,
                                       !.events = PushedEvents(@, "message")]
           /\ bus' = emit(bus, [type |-> "message", id |-> msg.id], throwers)
    /\ UNCHANGED <<workerVars, req, mgrVars>>

\* The transport reports an ack for message id.
UpdateMessageAck(id, throwers) ==
    /\ Cardinality(AckEvents) < MaxAcks
    /\ throwers \subseteq Subscribed
    /\ LET after == updateMessageAck(eventStore, bus,
                       [messageId |-> id, ack |-> AckRead], throwers)
       IN  /\ eventStore' = after.store
           /\ bus' = after.bus
    /\ UNCHANGED <<workerVars, req, mgrVars>>

\* bus.subscribe(listener): a stream opens with a listener of its own.
Subscribe(l) ==
    /\ bus.status[l] = "new"
    /\ bus' = [bus EXCEPT !.listeners = Append(@, l),
                          !.status[l] = "subscribed"]
    /\ UNCHANGED <<eventStore, workerVars, req, mgrVars>>

\* The unsubscribe function bus.subscribe returned for listener l is called.
Unsubscribe(l) ==
    /\ bus.status[l] = "subscribed"
    /\ bus' = [bus EXCEPT
                  !.listeners = SelectSeq(@, LAMBDA x : x # l),
                  !.status[l] = "unsubscribed"]
    /\ UNCHANGED <<eventStore, workerVars, req, mgrVars>>

InitEventStore ==
    /\ eventStore = [objects |-> [id \in MsgIds |-> NoObject],
                     messagesById |-> [id \in MsgIds |-> 0],
                     messagesByChat |-> [c \in ChatIds |-> <<>>],
                     messageList |-> <<>>,
                     events |-> <<>>,
                     nextId |-> 1]
    /\ bus = [listeners |-> <<>>,
              status |-> [l \in ListenerIds |-> "new"],
              event |-> [type |-> "none", id |-> 0],
              invoked |-> <<>>,
              thrown |-> {}]

(***************************************************************************)
(* SpecWorker: the worker with MaxJobs jobs already in the queue.          *)
(***************************************************************************)
InitWorker ==
    /\ now = StartMs
    /\ workerAlive = TRUE
    /\ redisUp = TRUE
    /\ \E ss \in [1..MaxJobs -> SessionIds] :
          queueJobs = [j \in 1..MaxJobs |-> NewJob(ss[j], "text", Uuid(j))]
    /\ waitList = [j \in 1..MaxJobs |-> j]
    /\ sessionLocks = [s \in SessionIds |-> <<>>]
    /\ sessionLastSendAt = [s \in SessionIds |-> 0]
    /\ lastSendEnd = [s \in SessionIds |-> 0]
    /\ jobLogs = <<>>
    /\ req = [r \in 1..MaxReq |-> IdleReq]
    /\ InitMgr
    /\ InitEventStore

NextWorker ==
    \/ WorkerDequeue
    \/ \E j \in JobIds : GateProceed(j)
    \/ \E j \in JobIds : DelayDone(j)
    \/ \E j \in JobIds : InternalSendOk(j)
    \/ \E j \in JobIds : InternalSendFail(j)
    \/ \E j \in JobIds : TaskReturn(j)
    \/ \E j \in JobIds : TaskThrow(j)
    \/ \E j \in JobIds : RetryReady(j)
    \/ Tick

SpecWorker == InitWorker /\ [][NextWorker]_vars

(***************************************************************************)
(* SpecLoad: the worker under a burst: n jobs for session A followed by    *)
(* jobs for session B, every send succeeding.                              *)
(***************************************************************************)
InitLoad ==
    /\ now = StartMs
    /\ workerAlive = TRUE
    /\ redisUp = TRUE
    /\ \E n \in 0..MaxLoadJobs :
          queueJobs = [j \in 1..MaxLoadJobs |->
                         NewJob(IF j <= n THEN "A" ELSE "B", "text", Uuid(j))]
    /\ waitList = [j \in 1..MaxLoadJobs |-> j]
    /\ sessionLocks = [s \in SessionIds |-> <<>>]
    /\ sessionLastSendAt = [s \in SessionIds |-> 0]
    /\ lastSendEnd = [s \in SessionIds |-> 0]
    /\ jobLogs = <<>>
    /\ req = [r \in 1..MaxReq |-> IdleReq]
    /\ InitMgr
    /\ InitEventStore

NextLoad ==
    \/ WorkerDequeue
    \/ \E j \in JobIds : GateProceed(j)
    \/ \E j \in JobIds : DelayDone(j)
    \/ \E j \in JobIds : InternalSendOk(j)
    \/ \E j \in JobIds : TaskReturn(j)
    \/ Tick

SpecLoad == InitLoad /\ [][NextLoad]_vars

(***************************************************************************)
(* SpecSend: API requests, the queue, the worker and the job log.          *)
(***************************************************************************)
InitSend ==
    /\ now = StartMs
    /\ workerAlive \in BOOLEAN
    /\ redisUp \in BOOLEAN
    /\ queueJobs = <<>>
    /\ waitList = <<>>
    /\ sessionLocks = [s \in SessionIds |-> <<>>]
    \* the worker may have sent for the sessions just before
    /\ \E t \in {0, StartMs} :
          /\ sessionLastSendAt = [s \in SessionIds |-> t]
          /\ lastSendEnd = [s \in SessionIds |-> t]
    /\ jobLogs = <<>>
    /\ req = [r \in 1..MaxReq |-> IdleReq]
    /\ InitMgr
    /\ InitEventStore

NextSend ==
    \/ \E r \in 1..MaxReq, s \in SessionIds : ApiPost(r, s)
    \/ \E r \in 1..MaxReq : ApiPostInvalid(r)
    \/ \E r \in 1..MaxReq : ProbeReturn(r)
    \/ \E r \in 1..MaxReq : QueueAddCommit(r)
    \/ \E r \in 1..MaxReq : QueueAddReturn(r)
    \/ \E r \in 1..MaxReq : QueueAddFail(r)
    \/ \E r \in 1..MaxReq : DirectSendOk(r)
    \/ \E r \in 1..MaxReq : DirectSendFail(r)
    \/ WorkerStart
    \/ WorkerShutdown
    \/ RedisDown
    \/ RedisBack
    \/ NextWorker

SpecSend == InitSend /\ [][NextSend]_vars

(***************************************************************************)
(* Claims about the worker's gate.                                         *)
(***************************************************************************)
InGate(j) == queueJobs[j].pc \in {"delay", "task", "respOk", "respFail"}
Sending(j) == queueJobs[j].pc \in {"task", "respOk", "respFail"}

\* C2: for each session id at most one job is inside the gate (pacing delay
\* or send) at any time, under every interleaving of the dequeued jobs.
C2_OneSendPerSession ==
    \A s \in SessionIds :
        Cardinality({j \in JobIds : queueJobs[j].sessionId = s /\ InGate(j)}) <= 1

\* C2 witness: a job is sending while another job of the same session has
\* been dequeued and waits for it.
C2_Witness ==
    \E j, k \in JobIds :
        /\ j # k
        /\ queueJobs[j].sessionId = queueJobs[k].sessionId
        /\ Sending(j)
        /\ queueJobs[k].pc = "waitPrev"

\* C3: a send of a session is never dispatched earlier than the end of the
\* session's previous send plus MIN_SESSION_DELAY_MS, whether that send
\* succeeded or failed.
C3_PacedAfterAnyOutcome ==
    [][\A j \in JobIds :
          (queueJobs[j].pc # "task" /\ queueJobs'[j].pc = "task")
          => LET s == queueJobs[j].sessionId
             IN  lastSendEnd[s] = 0 \/ now >= lastSendEnd[s] + MIN_SESSION_DELAY_MS
      ]_vars

(***************************************************************************)
(* Claims about the burst.                                                 *)
(***************************************************************************)
SessionIdleInWorker(s) ==
    \A k \in ActiveJobs : queueJobs[k].sessionId # s

\* C4: a job whose session has nothing in the worker can be started whatever
\* the number of jobs of other sessions executing or waiting in their gates.
C4_OtherSessionsNeverDelay ==
    (/\ waitList # <<>>
     /\ SessionIdleInWorker(queueJobs[Head(waitList)].sessionId))
    => ENABLED WorkerDequeue

(***************************************************************************)
(* Claims about the send pipeline.                                         *)
(***************************************************************************)
LogEntries(P(_)) == {i \in DOMAIN jobLogs : P(jobLogs[i])}
Terminal(j) == queueJobs[j].pc \in {"completed", "failed"}
Accepted(r) == req[r].pc = "done" /\ req[r].status = 200

\* C5: every accepted job id is traceable to an outcome: a queued job that
\* has ended has a success or failed entry in the job log (under its job id
\* or under the id of the message it sent); a direct job's outcome is the
\* response itself.
C5_AcceptedJobTraceable ==
    \A r \in 1..MaxReq : \A j \in JobIds :
        (Accepted(r) /\ queueJobs[j].jobId = req[r].jobId /\ Terminal(j))
        => \E i \in DOMAIN jobLogs :
              /\ jobLogs[i].status \in {"success", "failed"}
              /\ jobLogs[i].jobId \in
                    {queueJobs[j].jobId, WorkerMsgId(queueJobs[j].jobId.n)}

\* C6: a job that failed on all its attempts has exactly one failed entry
\* in the job log, and no job ever has more than one.
C6_OneFailedEntry ==
    \A j \in JobIds :
        LET failedEntries ==
               {i \in DOMAIN jobLogs :
                   /\ jobLogs[i].status = "failed"
                   /\ jobLogs[i].jobId = queueJobs[j].jobId}
        IN  /\ Cardinality(failedEntries) <= 1
            /\ queueJobs[j].pc = "failed" => Cardinality(failedEntries) = 1

C8_NoWorkerAnswers503 ==
    \A r \in 1..MaxReq :
        req[r].workerReady = "no"
        => /\ req[r].pc # "directSend"
           /\ req[r].pc = "done" => req[r].status = 503

\* C9: when queue.add fails, enqueue performs no send and the failure
\* reaches the caller as a QueueUnavailableError.
C9_AddFailureSurfaced ==
    \A r \in 1..MaxReq :
        req[r].addFailed
        => /\ req[r].pc = "done"
           /\ req[r].error = "QueueUnavailableError"

(***************************************************************************)
(* The manager specifications start with no context, no record, and the    *)
(* queue side idle.                                                        *)
(***************************************************************************)
InitManager ==
    /\ InitMgr
    /\ InitEventStore
    /\ now = StartMs
    /\ workerAlive = FALSE
    /\ redisUp = FALSE
    /\ queueJobs = <<>>
    /\ waitList = <<>>
    /\ sessionLocks = [s \in SessionIds |-> <<>>]
    /\ sessionLastSendAt = [s \in SessionIds |-> 0]
    /\ lastSendEnd = [s \in SessionIds |-> 0]
    /\ jobLogs = <<>>
    /\ req = [r \in 1..MaxReq |-> IdleReq]

(***************************************************************************)
(* SpecEnsure: ensureSession and startSession calls on a fresh session id, *)
(* the initialization settling either way, and the lifecycle callbacks.    *)
(* The reconnect timer (2 s or more) does not fire within the scenario.    *)
(***************************************************************************)
NextEnsure ==
    \/ GetSessionState
    \/ \E i \in CallerIds : EnsureSession(i)
    \/ StartSession
    \/ \E c \in ClientIds : InitResolve(c)
    \/ \E c \in ClientIds : InitReject(c)
    \/ \E k \in ClientIds : OnQr(k)
    \/ \E k \in ClientIds : OnUp(k, "authenticated")
    \/ \E k \in ClientIds : OnUp(k, "ready")
    \/ \E k \in ClientIds : OnDown(k, "auth_failure")
    \/ \E k \in ClientIds : OnDown(k, "disconnected")

SpecEnsure == InitManager /\ [][NextEnsure]_vars

(***************************************************************************)
(* SpecMgr: the life of a session started by startSession: callbacks,      *)
(* reconnect timers, reconnect calls and logout.                           *)
(***************************************************************************)
NextMgr ==
    \/ GetSessionState
    \/ StartSession
    \/ \E c \in ClientIds : InitResolve(c)
    \/ \E c \in ClientIds : InitReject(c)
    \/ \E k \in ClientIds : OnQr(k)
    \/ \E k \in ClientIds : OnUp(k, "authenticated")
    \/ \E k \in ClientIds : OnUp(k, "ready")
    \/ \E k \in ClientIds : OnDown(k, "auth_failure")
    \/ \E k \in ClientIds : OnDown(k, "disconnected")
    \/ ManualReconnect
    \/ \E c \in ClientIds : TimerFire(c)
    \/ \E b \in 0..MaxClients, ok \in BOOLEAN : ReconnectDestroySettle(b, ok)
    \/ LogoutCall
    \/ \E ok \in BOOLEAN : LogoutSettle(ok)
    \/ LogoutDestroyed
    \/ LogoutDestroyFailed

SpecMgr == InitManager /\ [][NextMgr]_vars

(***************************************************************************)
(* SpecReconnect: a session started by startSession whose connection goes  *)
(* up and down: callbacks, reconnect timers and the reconnects they call.  *)
(* Every context after the first is the replacement a timer's reconnect    *)
(* installed.                                                              *)
(***************************************************************************)
NextReconnect ==
    \/ StartSession
    \/ \E c \in ClientIds : InitResolve(c)
    \/ \E c \in ClientIds : InitReject(c)
    \/ \E k \in ClientIds : OnQr(k)
    \/ \E k \in ClientIds : OnUp(k, "authenticated")
    \/ \E k \in ClientIds : OnUp(k, "ready")
    \/ \E k \in ClientIds : OnDown(k, "auth_failure")
    \/ \E k \in ClientIds : OnDown(k, "disconnected")
    \/ \E c \in ClientIds : TimerFire(c)
    \/ \E b \in ClientIds, ok \in BOOLEAN : ReconnectDestroySettle(b, ok)

SpecReconnect == InitManager /\ [][NextReconnect]_vars

(***************************************************************************)
(* SpecRecover: ensureSession calls whose initialization may hit the       *)
(* browser-lock error and go through lock recovery.                        *)
(***************************************************************************)
NextRecover ==
    \/ \E i \in CallerIds : EnsureSession(i)
    \/ \E c \in ClientIds : InitResolve(c)
    \/ \E c \in ClientIds : InitReject(c)
    \/ \E c \in ClientIds : InitRejectLock(c)
    \/ \E c \in ClientIds, ok \in BOOLEAN : RecoverDestroySettle(c, ok)
    \/ \E c \in ClientIds : InitRejectLockAgain(c)
    \/ \E k \in ClientIds : OnUp(k, "ready")
    \/ \E k \in ClientIds : OnDown(k, "disconnected")

SpecRecover == InitManager /\ [][NextRecover]_vars

(***************************************************************************)
(* C1.  The first initialization of a fresh session id is in flight: the   *)
(* first context is the only one ever created and its initialize() has not *)
(* settled.                                                                *)
(***************************************************************************)
Called(i) == callers[i].pc # "idle"

FirstAttemptPending ==
    /\ nextClient = 1
    /\ ~clients[1].settled
    /\ \E i \in CallerIds : Called(i)

\* C1 as stated: concurrent ensureSession calls (mixed with startSession
\* calls) on a fresh session id trigger exactly one initialize() invocation
\* and every caller awaits that same single attempt.
C1_EveryCallerAwaitsOneAttempt ==
    FirstAttemptPending =>
        /\ clients[1].initCalls = 1
        /\ \A i \in CallerIds :
              Called(i) => callers[i].pc = "await" /\ callers[i].ctx = 1

\* C1 amended: while the first initialization of a fresh session id is
\* pending, initialize() was invoked exactly once and is in flight, and
\* every ensureSession caller either awaits that attempt or returned the
\* first context's client at once because a lifecycle callback
\* (authenticated, ready) had already marked the context initialized.
C1_OneAttemptAwaitedOrInitialized ==
    FirstAttemptPending =>
        /\ clients[1].initCalls = 1
        /\ ctx[1].chain.phase = "init"
        /\ \A i \in CallerIds :
              Called(i) =>
                 /\ callers[i].ctx = 1
                 /\ \/ callers[i].pc = "await"
                    \/ callers[i].pc = "returned" /\ callers[i].path = "initialized"

\* C1 witness: two ensureSession callers await the one pending attempt,
\* which a startSession call or the first of them started.
C1_Witness ==
    /\ FirstAttemptPending
    /\ clients[1].initCalls = 1
    /\ callers[1].pc = "await" /\ callers[2].pc = "await"
    /\ ctx[1].chain.kind \in {"ensure", "start"}

(***************************************************************************)
(* C10.  logout completes: client.destroy() resolved, the entry deleted    *)
(* and the record patched, in one step.                                    *)
(***************************************************************************)
LogoutCompletes == logoutTask.pc = "destroy" /\ logoutTask'.pc = "done"

\* C10: after logout(id) completes on a session that has a context, the
\* context is removed and the record has status disconnected,
\* reconnectAttempts 0, no lastError and no qr, whatever they were before.
C10_LogoutResetsRecord ==
    [][LogoutCompletes =>
          /\ sessions' = 0
          /\ store'.status = "disconnected"
          /\ store'.reconnectAttempts = 0
          /\ store'.lastError = Undef
          /\ store'.qr = Undef]_vars

(***************************************************************************)
(* C11.  A logged-out session: logout completed on a context, no context   *)
(* is installed, the record says disconnected and no timer is armed.       *)
(***************************************************************************)
NoTimerArmed == \A c \in ClientIds : ctx[c].reconnectTimer # "armed"

LoggedOut ==
    /\ logoutTask.pc = "done" /\ logoutTask.ctx # 0
    /\ sessions = 0
    /\ store.status = "disconnected"
    /\ NoTimerArmed

\* A caller references the session: startSession, ensureSession, reconnect.
ExplicitReference ==
    \/ StartSession
    \/ ManualReconnect
    \/ \E i \in CallerIds : EnsureSession(i)

\* C11: once logout(id) has completed, no reconnect timer of the session is
\* armed, and no later timer fire or callback recreates a context or moves
\* the status away from disconnected, until a caller references the session.
C11_LoggedOutStaysLoggedOut ==
    [][/\ LogoutCompletes => LoggedOut'
       /\ (LoggedOut /\ ~ExplicitReference) => LoggedOut']_vars

(***************************************************************************)
(* C12.  The armed reconnect timers of the session id, over all the        *)
(* contexts made for it.                                                   *)
(***************************************************************************)
ArmedTimers == {c \in ClientIds : ctx[c].reconnectTimer = "armed"}

\* An auth_failure or disconnected callback of connection object k.
DownCallback(k) == OnDown(k, "auth_failure") \/ OnDown(k, "disconnected")

\* C12: at most one reconnect timer is armed for the session id at any
\* time, and scheduling while a context's timer is armed arms no second
\* timer and does not increment reconnectAttempts.
C12_OneTimerPerSession ==
    [][/\ Cardinality(ArmedTimers') <= 1
       /\ \A k \in ClientIds :
             (ctx[k].reconnectTimer = "armed" /\ DownCallback(k)) =>
                /\ ctx'[k].reconnectTimer = "armed"
                /\ ctx'[k].reconnectAttempts = ctx[k].reconnectAttempts]_vars

(***************************************************************************)
(* C13.  A down callback on the context the manager holds.                 *)
(***************************************************************************)
\* C13: after an auth_failure or disconnected callback on a session whose
\* context is still held by the manager, a reconnect timer is armed and
\* pending when the callback returns, after any earlier operations,
\* including a logout call that failed.
C13_DownCallbackArmsTimer ==
    [][\A k \in ClientIds :
          (sessions = k /\ DownCallback(k)) =>
             ctx'[k].reconnectTimer = "armed"]_vars

(***************************************************************************)
(* SpecBackoff: a session whose reconnects have already failed n times:    *)
(* the installed context carries reconnectAttempts = n (reconnect copies   *)
(* the count into each replacement), its initialize() has resolved and no  *)
(* authenticated or ready callback has reset the count yet.  From there    *)
(* the connection goes down, timers fire and reconnects fail or succeed.   *)
(***************************************************************************)
InitBackoff ==
    /\ \E n \in 0..MaxAttempts :
          /\ ctx = [c \in ClientIds |->
                      IF c = 1
                      THEN [NewContext(n) EXCEPT !.isInitialized = TRUE]
                      ELSE NoContext]
          /\ store = upsertSession(
                        upsertSession(NoRecord,
                           Patch("disconnected",
                                 Undef,
                                 IF n = 0 THEN Undef ELSE "reconnect failed",
                                 n)),
                        Patch("connecting", Undef, Undef, NoAttempts))
    /\ sessions = 1
    /\ nextClient = 1
    /\ clients = [k \in ClientIds |->
                    IF k = 1
                    THEN [state |-> "running", initCalls |-> 1, settled |-> TRUE]
                    ELSE [state |-> "none", initCalls |-> 0, settled |-> FALSE]]
    /\ callers = [i \in CallerIds |-> [pc |-> "idle", ctx |-> 0, path |-> "none", error |-> Undef]]
    /\ logoutTask = [pc |-> "idle", ctx |-> 0]
    /\ reconnects = [b \in 0..MaxClients |-> NoRecon]
    /\ emitted = 0
    /\ InitEventStore
    /\ now = StartMs
    /\ workerAlive = FALSE
    /\ redisUp = FALSE
    /\ queueJobs = <<>>
    /\ waitList = <<>>
    /\ sessionLocks = [s \in SessionIds |-> <<>>]
    /\ sessionLastSendAt = [s \in SessionIds |-> 0]
    /\ lastSendEnd = [s \in SessionIds |-> 0]
    /\ jobLogs = <<>>
    /\ req = [r \in 1..MaxReq |-> IdleReq]

NextBackoff ==
    \/ \E k \in ClientIds : OnUp(k, "ready")
    \/ \E k \in ClientIds : OnDown(k, "auth_failure")
    \/ \E k \in ClientIds : OnDown(k, "disconnected")
    \/ \E c \in ClientIds : TimerFire(c)
    \/ \E b \in ClientIds, ok \in BOOLEAN : ReconnectDestroySettle(b, ok)
    \/ \E c \in ClientIds : InitResolve(c)
    \/ \E c \in ClientIds : InitReject(c)

SpecBackoff == InitBackoff /\ [][NextBackoff]_vars

(***************************************************************************)
(* C14.  A step that arms the timer of context c.                          *)
(***************************************************************************)
Arms(c) == ctx[c].reconnectTimer # "armed" /\ ctx'[c].reconnectTimer = "armed"

\* C14: the delay armed for attempt count n, n incremented first, is
\* min(30000, 1000 * 2^n) ms: never above 30000, non-decreasing in n, and
\* delay(1) = 2000, delay(4) = 16000, delay(5) = 30000, delay(10) = 30000.
C14_BackoffDelay ==
    [][\A c \in ClientIds :
          Arms(c) =>
             LET n == ctx'[c].reconnectAttempts
                 d == ctx'[c].delayMs
             IN  /\ n = ctx[c].reconnectAttempts + 1
                 /\ d <= 30000 /\ d <= MAX_RECONNECT_DELAY_MS
                 /\ d = IF n <= 4 THEN 1000 * 2 ^ n ELSE 30000
                 /\ \A m \in 1..n : ReconnectDelay(m) <= d
                 /\ n = 1 => d = 2000
                 /\ n = 4 => d = 16000
                 /\ n = 5 => d = 30000
                 /\ n = 10 => d = 30000]_vars

\* C14 witness: a timer armed for attempt 10 with the capped delay.
C14_Witness ==
    \E c \in ClientIds :
        /\ ctx[c].reconnectTimer = "armed"
        /\ ctx[c].reconnectAttempts = 10
        /\ ctx[c].delayMs = 30000

(***************************************************************************)
(* C15.  A disconnected callback on a ready session.                       *)
(***************************************************************************)
ReadySession(k) ==
    /\ sessions = k
    /\ store.status = "ready"
    /\ store.reconnectAttempts = 0
    /\ ctx[k].reconnectAttempts = 0
    /\ ctx[k].reconnectTimer = "none"

\* C15: when a disconnected callback fires on a session whose status is
\* ready (reconnectAttempts 0, no timer armed), then once the callback has
\* returned the record shows status disconnected, reconnectAttempts 1, and
\* a reconnect timer is armed.
C15_DisconnectedOnReady ==
    [][\A k \in ClientIds :
          (ReadySession(k) /\ OnDown(k, "disconnected")) =>
             /\ store'.status = "disconnected"
             /\ store'.reconnectAttempts = 1
             /\ ctx'[k].reconnectTimer = "armed"]_vars

(***************************************************************************)
(* C16.  A reconnect started by a timer, and the ready callback of the     *)
(* replacement it installed (in SpecReconnect: every context after the     *)
(* first).                                                                 *)
(***************************************************************************)
\* C16: when an armed reconnect timer fires, the status returns to
\* connecting; on the ready callback of the installed replacement the
\* status becomes ready with reconnectAttempts 0 in the installed context
\* and in the record.
C16_TimerReconnectThenReady ==
    [][/\ \A c \in ClientIds :
             TimerFire(c) => store'.status = "connecting"
       /\ \A k \in ClientIds :
             (k > 1 /\ sessions = k /\ OnUp(k, "ready")) =>
                /\ store'.status = "ready"
                /\ store'.reconnectAttempts = 0
                /\ ctx'[sessions'].reconnectAttempts = 0]_vars

\* C16 witness: the timer fired, the replacement is installed, its
\* initialize() resolved and its ready callback came: ready after
\* connecting, counts 0.
C16_Witness ==
    /\ sessions = 2
    /\ clients[2].settled /\ ctx[2].isInitialized
    /\ store.status = "ready" /\ store.was = "connecting"
    /\ store.reconnectAttempts = 0
    /\ ctx[2].reconnectAttempts = 0
    /\ ctx[1].reconnectAttempts > 0

(***************************************************************************)
(* C17.  The statuses of a never-seen session id.                          *)
(***************************************************************************)
\* C17: for a never-seen session id getSessionState gives status unknown,
\* the first startSession then gives connecting, a qr callback gives qr
\* with the payload stored, and a subsequent ready callback gives ready,
\* clears qr and sets reconnectAttempts to 0.
C17_StatusSequence ==
    [][/\ GetSessionState => store'.status = "unknown"
       /\ (nextClient = 0 /\ StartSession) =>
             /\ store'.status = "connecting"
             /\ store.exists => store.status = "unknown"
       /\ \A k \in ClientIds :
             OnQr(k) => store'.status = "qr" /\ store'.qr = "qr-payload"
       /\ \A k \in ClientIds :
             OnUp(k, "ready") =>
                /\ store'.status = "ready"
                /\ store'.qr = Undef
                /\ store'.reconnectAttempts = 0]_vars

\* C17 witness: ready after qr on the first connection object, which
\* startSession is initializing; the payload cleared, the count 0.
C17_Witness ==
    /\ nextClient = 1
    /\ ctx[1].chain.kind = "start"
    /\ store.status = "ready" /\ store.was = "qr"
    /\ store.qr = Undef
    /\ store.reconnectAttempts = 0

(***************************************************************************)
(* C18.                                                                    *)
(***************************************************************************)
\* C18: in every reachable state the record's qr field is present only
\* while its status is qr.
C18_QrOnlyWhileStatusQr == store.qr # Undef => store.status = "qr"

(***************************************************************************)
(* C19.  An ensureSession call returns: its await resumed without error,   *)
(* or it found the context initialized.                                    *)
(***************************************************************************)
Returns(i) == callers[i].pc # "returned" /\ callers'[i].pc = "returned"

\* C19: ensureSession resolves with the connection object installed in the
\* manager when it returns, never with one on which destroy has been
\* called or that has been replaced.
C19_ReturnsInstalledObject ==
    [][\A i \in CallerIds :
          Returns(i) =>
             /\ sessions' = callers'[i].ctx
             /\ clients'[callers'[i].ctx].state # "destroyed"]_vars

(***************************************************************************)
(* C20.  The initialization that startSession started fails.               *)
(***************************************************************************)
StartFails(c) == ctx[c].chain.kind = "start" /\ InitReject(c)

\* C20: startSession never blocks on initialization and never propagates
\* an initialization failure; a failed initialization becomes a record
\* update (status disconnected, lastError set) and leaves the session able
\* to start a fresh attempt on the next call.
C20_StartFailureSwallowed ==
    [][/\ StartSession => callers' = callers
       /\ \A c \in ClientIds :
             StartFails(c) =>
                /\ \A i \in CallerIds :
                      callers'[i].pc = "threw" => callers[i].pc = "threw"
                /\ store'.status = "disconnected"
                /\ store'.lastError # Undef
                /\ ~ctx'[c].isInitialized
                /\ ctx'[c].chain.phase = "none"]_vars

\* C20 witness: after a failed initialization (record disconnected with
\* the error) the next startSession started a second initialize().
C20_Witness ==
    /\ sessions = 1
    /\ clients[1].initCalls = 2 /\ clients[1].settled
    /\ ctx[1].chain.kind = "start" /\ ctx[1].chain.phase = "init"
    /\ store.status = "disconnected" /\ store.lastError = "init failed"
    /\ \A i \in CallerIds : callers[i].pc = "idle"

(***************************************************************************)
(* SpecStore: the event store receiving messages of either direction in    *)
(* two chats, and acks, with no stream subscribed to the bus.              *)
(***************************************************************************)
NextStore ==
    \/ \E fromMe \in BOOLEAN, peer \in Peers : PushMessage(fromMe, peer, {})
    \/ \E id \in MsgIds : UpdateMessageAck(id, {})

SpecStore == InitManager /\ [][NextStore]_vars

(***************************************************************************)
(* SpecBus: streams subscribe to and unsubscribe from the bus while the    *)
(* event store receives messages from one peer and acks for the first      *)
(* message (before it is stored, while it is stored, after its eviction);  *)
(* any of the listeners may throw.                                         *)
(***************************************************************************)
NextBus ==
    \/ \E l \in ListenerIds : Subscribe(l)
    \/ \E l \in ListenerIds : Unsubscribe(l)
    \/ \E t \in SUBSET ListenerIds : PushMessage(FALSE, "peerA", t)
    \/ \E t \in SUBSET ListenerIds : UpdateMessageAck(1, t)

SpecBus == InitManager /\ [][NextBus]_vars

(***************************************************************************)
(* C24.  After maxMessages + 1 messages were pushed, the maxMessages       *)
(* newest are what getRecentMessages returns, in order; the oldest is      *)
(* gone from getMessage and from every chat's getChatMessages, and the     *)
(* others are in both.                                                     *)
(***************************************************************************)
Pushed == eventStore.nextId - 1

InChatIndex(id) ==
    \E c \in ChatIds :
       \E j \in 1..Len(getChatMessages(c, maxMessages)) :
          getChatMessages(c, maxMessages)[j] = id

C24_EvictionKeepsIndexes ==
    Pushed = maxMessages + 1 =>
       /\ getRecentMessages(maxMessages) = [j \in 1..maxMessages |-> j + 1]
       /\ Len(getRecentMessages(maxMessages + 1)) = maxMessages
       /\ getMessage(1) = 0
       /\ ~InChatIndex(1)
       /\ \A id \in 2..(maxMessages + 1) : getMessage(id) = id /\ InChatIndex(id)

\* C24 witness: the evicted message was an outgoing one, and its chat still
\* holds a newer message.
C24_Witness ==
    /\ Pushed = maxMessages + 1
    /\ eventStore.objects[1].fromMe
    /\ getChatMessages(ChatIdOf(eventStore.objects[1]), maxMessages) # <<>>
    /\ \E c \in ChatIds : getChatMessages(c, maxMessages) = <<>>

(***************************************************************************)
(* C25.  An ack update for the first message publishes one message_ack     *)
(* event to every listener subscribed at the time, each invoked once,      *)
(* whether the message is stored or not; a stored message gets the ack in  *)
(* place and nothing else in the containers changes.                       *)
(***************************************************************************)
C25_AckAlwaysPublished ==
    [][\A t \in SUBSET ListenerIds :
          UpdateMessageAck(1, t) =>
             /\ bus'.event = [type |-> "message_ack", id |-> 1]
             /\ bus'.invoked = bus.listeners
             /\ eventStore'.objects =
                   IF getMessage(1) # 0
                   THEN [eventStore.objects EXCEPT ![1].ack = AckRead]
                   ELSE eventStore.objects
             /\ eventStore'.messageList = eventStore.messageList
             /\ eventStore'.messagesById = eventStore.messagesById
             /\ eventStore'.messagesByChat = eventStore.messagesByChat]_vars

\* C25 witness: the last event is an ack for the first message, published
\* to two listeners after the message was evicted without ever being acked.
C25_Witness ==
    /\ bus.event = [type |-> "message_ack", id |-> 1]
    /\ Pushed > maxMessages
    /\ getMessage(1) = 0
    /\ eventStore.objects[1].ack = 0
    /\ Len(bus.invoked) = 2

(***************************************************************************)
(* C26.  Every emit invokes exactly the listeners subscribed at the time,  *)
(* in order, whichever of them throw; it leaves the set of listeners as    *)
(* it was and invokes no listener that is not subscribed (never            *)
(* subscribed, or unsubscribed).                                           *)
(***************************************************************************)
Emits(t) == PushMessage(FALSE, "peerA", t) \/ UpdateMessageAck(1, t)

C26_EmitReachesEveryListener ==
    [][\A t \in SUBSET ListenerIds :
          Emits(t) =>
             /\ bus'.invoked = bus.listeners
             /\ bus'.thrown = t
             /\ bus'.listeners = bus.listeners
             /\ \A l \in ListenerIds :
                   bus.status[l] # "subscribed" =>
                      \A j \in 1..Len(bus'.invoked) : bus'.invoked[j] # l]_vars

\* C26 witness: the first listener invoked threw and a second one was
\* invoked after it.
C26_Witness ==
    /\ Len(bus.invoked) = 2
    /\ bus.invoked[1] \in bus.thrown
    /\ bus.invoked[2] \notin bus.thrown

(***************************************************************************)
(* C22.  A step that creates the record of a session id that has no        *)
(* context (getSessionState before any other reference) stores status      *)
(* `unknown`, reconnectAttempts 0, no qr and no lastError; the stored      *)
(* record is what statusStore.getSession returns from then on.             *)
(***************************************************************************)
C22_UnknownBeforeAnyReference ==
    [][(~store.exists /\ store'.exists /\ sessions' = 0) =>
          /\ store'.status = "unknown"
          /\ store'.reconnectAttempts = 0
          /\ store'.qr = Undef
          /\ store'.lastError = Undef]_vars

\* C22 witness: getSessionState created the record and nothing else has
\* referenced the id.
C22_Witness ==
    /\ store.exists
    /\ store.status = "unknown"
    /\ store.reconnectAttempts = 0
    /\ nextClient = 0

(***************************************************************************)
(* SpecUpsert: upsertSession applied to one session id with every patch of *)
(* PatchSet, in every order.  A field of a patch that is omitted, or given *)
(* as undefined, reads as Undef (NoAttempts for the count).                *)
(***************************************************************************)
SessionStatus ==
    {"connecting", "qr", "authenticated", "ready", "disconnected",
     "auth_failure", "unknown"}

PatchSet ==
    {Patch(status, qr, lastError, attempts) :
        status \in SessionStatus \cup {Undef},
        qr \in {Undef, "qr-payload"},
        lastError \in {Undef, "error"},
        attempts \in {NoAttempts} \cup 0..MaxPatchAttempts}

UpsertPatch(p) ==
    /\ store' = upsertSession(store, p)
    /\ UNCHANGED <<sessions, ctx, clients, nextClient, callers, logoutTask,
                   reconnects, emitted, workerVars, req, evVars>>

NextUpsert == \E p \in PatchSet : UpsertPatch(p)

SpecUpsert == InitManager /\ [][NextUpsert]_vars

(***************************************************************************)
(* C23.  A patch p2 applied to the record a patch p1 left: each field of   *)
(* the result is p2's when p2 has a value for it and the record's          *)
(* otherwise, except that a patch with status `ready` or `authenticated`   *)
(* leaves no qr and no lastError, whatever the record and the patch held.  *)
(***************************************************************************)
C23_PatchOverridesFieldwise ==
    [][\A p2 \in PatchSet :
          (store.exists /\ UpsertPatch(p2)) =>
             /\ store'.status =
                   IF p2.status # Undef THEN p2.status ELSE store.status
             /\ store'.reconnectAttempts =
                   IF p2.reconnectAttempts # NoAttempts
                   THEN p2.reconnectAttempts ELSE store.reconnectAttempts
             /\ IF p2.status \in {"ready", "authenticated"}
                THEN store'.qr = Undef /\ store'.lastError = Undef
                ELSE /\ store'.qr = IF p2.qr # Undef THEN p2.qr ELSE store.qr
                     /\ store'.lastError =
                           IF p2.lastError # Undef THEN p2.lastError
                           ELSE store.lastError]_vars

\* C23 witness: a record that had a qr and an error was patched with status
\* `ready` and has neither.
C23_Witness ==
    /\ store.status = "ready"
    /\ store.was = "qr"
    /\ store.qr = Undef
    /\ store.lastError = Undef
    /\ store.reconnectAttempts = MaxPatchAttempts

(***************************************************************************)
(* C21.  Lock recovery retries once.  The recovery step installs a         *)
(* connection object that did not exist before and calls initialize() on   *)
(* it once, with its callbacks attached (it is running).  When that        *)
(* initialize() rejects, the chain ends: no object is created, no          *)
(* initialize() is called, and every call awaiting the chain throws the    *)
(* error, with the advice appended when it is the lock error again.  A     *)
(* chain that has retried never recovers a second time.                    *)
(***************************************************************************)
RetryFails(c, error) ==
    \/ error = InitError /\ ctx[c].chain.phase = "init2" /\ InitReject(c)
    \/ error = BrowserLockError /\ InitRejectLockAgain(c)

C21_LockRecoveryRetriesOnce ==
    [][\A c \in ClientIds :
          /\ \A ok \in BOOLEAN :
                RecoverDestroySettle(c, ok) =>
                   /\ sessions' # c
                   /\ clients[sessions'].state = "none"
                   /\ clients'[sessions'].state = "running"
                   /\ clients'[sessions'].initCalls = 1
                   /\ ctx'[c].chain.repl = sessions'
          /\ \A error \in {InitError, BrowserLockError} :
                RetryFails(c, error) =>
                   /\ ctx'[c].chain = NoChain
                   /\ nextClient' = nextClient
                   /\ \A k \in ClientIds :
                         clients'[k].initCalls = clients[k].initCalls
                   /\ \A i \in CallerIds :
                         (callers[i].pc = "await" /\ callers[i].ctx = c) =>
                            /\ callers'[i].pc = "threw"
                            /\ callers'[i].error =
                                  IF error = BrowserLockError
                                  THEN LockHint ELSE InitError
          /\ ctx[c].chain.phase = "init2" =>
                ctx'[c].chain.phase \in {"init2", "none"}]_vars

\* C21 witness: an ensureSession call threw the lock error with the advice
\* after one initialize() on the first object and one on its replacement.
C21_Witness ==
    /\ \E i \in CallerIds :
          /\ callers[i].pc = "threw"
          /\ callers[i].ctx = 1
          /\ callers[i].error = LockHint
    /\ clients[1].initCalls = 1
    /\ clients[2].initCalls = 1
    /\ sessions = 2

(***************************************************************************)
(* C27.  At most one initialize() invocation of the session is pending:    *)
(* a chain at its first await has one pending on its own object, a chain   *)
(* at the retry of a lock recovery has one pending on its replacement.     *)
(***************************************************************************)
PendingInitializations ==
    {c \in ClientIds : ctx[c].chain.phase \in {"init", "init2"}}

C27_OneInitializationInFlight == Cardinality(PendingInitializations) <= 1

(***************************************************************************)
(* C29.  A lifecycle callback of a connection object whose context is not  *)
(* the installed one leaves the record as it is and arms no timer.         *)
(***************************************************************************)
Callback(k) ==
    \/ OnQr(k)
    \/ OnUp(k, "authenticated")
    \/ OnUp(k, "ready")
    \/ OnDown(k, "auth_failure")
    \/ OnDown(k, "disconnected")

C29_StaleCallbacksIgnored ==
    [][\A k \in ClientIds :
          (sessions # k /\ Callback(k)) => (store' = store /\ ~Arms(k))]_vars

(***************************************************************************)
(* SpecReplace: a session started by startSession whose connection object  *)
(* gets replaced, by the reconnect a timer calls or by lock recovery; an   *)
(* initialize() resolves or hits the browser lock.                         *)
(***************************************************************************)
NextReplace ==
    \/ StartSession
    \/ \E c \in ClientIds : InitResolve(c)
    \/ \E c \in ClientIds : InitRejectLock(c)
    \/ \E c \in ClientIds, ok \in BOOLEAN : RecoverDestroySettle(c, ok)
    \/ \E k \in ClientIds : OnDown(k, "disconnected")
    \/ \E c \in ClientIds : TimerFire(c)
    \/ \E b \in ClientIds, ok \in BOOLEAN : ReconnectDestroySettle(b, ok)

SpecReplace == InitManager /\ [][NextReplace]_vars

(***************************************************************************)
(* C28.  A replacement is installed only by the continuation of an awaited *)
(* destroy() of the old object, whether that destroy() resolved or         *)
(* rejected: the step installs an object that did not exist before, with   *)
(* the old context's reconnectAttempts, and calls initialize() on it for   *)
(* the first time in the same step, after its callbacks were attached (it  *)
(* is running); a destroy() that resolved leaves the old object destroyed. *)
(***************************************************************************)
Installs(old, ok) ==
    /\ sessions' # old
    /\ sessions' # 0
    /\ clients[sessions'].state = "none"
    /\ clients'[sessions'].state = "running"
    /\ clients'[sessions'].initCalls = 1
    /\ ctx'[sessions'].reconnectAttempts = ctx[old].reconnectAttempts
    /\ ~ctx'[sessions'].isInitialized
    /\ ok => clients'[old].state = "destroyed"

AwaitsDestroy ==
    \/ \E b \in 0..MaxClients : reconnects[b].phase = "destroy"
    \/ \E c \in ClientIds : ctx[c].chain.phase = "recoverDestroy"

C28_WitnessRecovery ==
    /\ sessions = 2
    /\ ctx[1].chain.phase = "init2"
    /\ ctx[2].reconnectAttempts = 1

(***************************************************************************)
(* SpecRetry: a session whose installed connection went down: its context  *)
(* carries reconnectAttempts = n >= 1 and the timer armed by the           *)
(* `disconnected` callback, the record shows `connecting` with that count  *)
(* and the reason.  From there timers fire, reconnects fail or succeed,    *)
(* and the connection objects emit `ready` and `disconnected`.             *)
(***************************************************************************)
InitRetry ==
    /\ \E n \in 1..MaxAttempts :
          /\ ctx = [c \in ClientIds |->
                      IF c = 1
                      THEN [NewContext(n) EXCEPT
                               !.reconnectTimer = "armed",
                               !.delayMs = ReconnectDelay(n)]
                      ELSE NoContext]
          /\ store = upsertSession(
                        upsertSession(NoRecord,
                           Patch("disconnected", Undef, "callback error",
                                 NoAttempts)),
                        Patch("connecting", Undef, Undef, n))
    /\ sessions = 1
    /\ nextClient = 1
    /\ clients = [k \in ClientIds |->
                    IF k = 1
                    THEN [state |-> "running", initCalls |-> 1, settled |-> TRUE]
                    ELSE [state |-> "none", initCalls |-> 0, settled |-> FALSE]]
    /\ callers = [i \in CallerIds |->
                    [pc |-> "idle", ctx |-> 0, path |-> "none", error |-> Undef]]
    /\ logoutTask = [pc |-> "idle", ctx |-> 0]
    /\ reconnects = [b \in 0..MaxClients |-> NoRecon]
    /\ emitted = 0
    /\ InitEventStore
    /\ now = StartMs
    /\ workerAlive = FALSE
    /\ redisUp = FALSE
    /\ queueJobs = <<>>
    /\ waitList = <<>>
    /\ sessionLocks = [s \in SessionIds |-> <<>>]
    /\ sessionLastSendAt = [s \in SessionIds |-> 0]
    /\ lastSendEnd = [s \in SessionIds |-> 0]
    /\ jobLogs = <<>>
    /\ req = [r \in 1..MaxReq |-> IdleReq]

NextRetry ==
    \/ \E c \in ClientIds : TimerFire(c)
    \/ \E b \in ClientIds, ok \in BOOLEAN : ReconnectDestroySettle(b, ok)
    \/ \E c \in ClientIds : InitResolve(c)
    \/ \E c \in ClientIds : InitReject(c)
    \/ \E k \in ClientIds : OnUp(k, "ready")
    \/ \E k \in ClientIds : OnDown(k, "disconnected")

SpecRetry == InitRetry /\ [][NextRetry]_vars

(***************************************************************************)
(* C30.  The count the record shows decreases only in an `authenticated`   *)
(* or `ready` callback: not when a failed reconnect is recorded and the    *)
(* timer re-armed, and not afterwards.                                     *)
(***************************************************************************)
C30_VisibleCountNeverDecreases ==
    [][store'.reconnectAttempts < store.reconnectAttempts =>
          \E k \in ClientIds : OnUp(k, "authenticated") \/ OnUp(k, "ready")]_vars

(***************************************************************************)
(* C30, the step itself.  When the reconnect called by the timer of        *)
(* context b fails, the record gets a lastError and the timer of b is      *)
(* armed; when the step arms it, the count of b is one higher, and the     *)
(* delay no shorter than that of b's previous timer unless a callback      *)
(* reset the count of b since.                                             *)
(***************************************************************************)
TimerReconnectFails(b) ==
    \E c \in ClientIds :
       /\ ctx[c].chain.kind = "reconnect"
       /\ ctx[c].chain.by = b
       /\ InitReject(c)

C30_FailureRecordedAndRearmed ==
    [][\A b \in ClientIds :
          TimerReconnectFails(b) =>
             /\ store'.lastError # Undef
             /\ ctx'[b].reconnectTimer = "armed"
             /\ Arms(b) =>
                   /\ ctx'[b].reconnectAttempts = ctx[b].reconnectAttempts + 1
                   /\ ctx[b].delayMs = ReconnectDelay(ctx[b].reconnectAttempts)
                         => ctx'[b].delayMs >= ctx[b].delayMs]_vars

(***************************************************************************)
(* C31.  The initialization that startSession or ensureSession started     *)
(* fails with an error that is not the browser-lock error.                 *)
(***************************************************************************)
FirstInitFails(c) ==
    ctx[c].chain.kind \in {"start", "ensure"} /\ InitReject(c)

\* C31: after initialize() fails in the startSession or ensureSession path
\* a reconnect timer is armed for the session.
C31_InitFailureArmsTimer ==
    [][\A c \in ClientIds :
          FirstInitFails(c) =>
             \E k \in ClientIds : ctx'[k].reconnectTimer = "armed"]_vars

(***************************************************************************)
(* SpecDiscover: the admin state route discovers the session directory of  *)
(* the id before or while the session is started, goes up and down, and is *)
(* reconnected by its timer.                                               *)
(***************************************************************************)
NextDiscover ==
    \/ DiscoverSessions
    \/ GetSessionState
    \/ StartSession
    \/ \E c \in ClientIds : InitResolve(c)
    \/ \E c \in ClientIds : InitReject(c)
    \/ \E k \in ClientIds : OnQr(k)
    \/ \E k \in ClientIds : OnUp(k, "authenticated")
    \/ \E k \in ClientIds : OnUp(k, "ready")
    \/ \E k \in ClientIds : OnDown(k, "auth_failure")
    \/ \E k \in ClientIds : OnDown(k, "disconnected")
    \/ \E c \in ClientIds : TimerFire(c)
    \/ \E b \in ClientIds, ok \in BOOLEAN : ReconnectDestroySettle(b, ok)

SpecDiscover == InitManager /\ [][NextDiscover]_vars

(***************************************************************************)
(* C32.  No connection attempt has been started for the session: no        *)
(* initialize() was ever called on any of its connection objects.          *)
(***************************************************************************)
NoAttemptStarted == \A k \in ClientIds : clients[k].initCalls = 0

\* C32: the status of a session is unknown as long as no initialize() has
\* ever been started for it; discoverSessions leaves the session in its
\* pre-connection status.
C32_UnknownUntilFirstAttempt ==
    (store.exists /\ NoAttemptStarted) => store.status = "unknown"

(***************************************************************************)
(* C33.  Something is pending for the session: an initialization chain or  *)
(* a reconnect call has not settled, or a reconnect timer is armed.  A     *)
(* context whose initialization succeeded counts as well: its connection   *)
(* is up and its callbacks will report the status.                         *)
(***************************************************************************)
SomethingPending ==
    \/ \E c \in ClientIds : ctx[c].chain.phase # "none"
    \/ \E c \in ClientIds : ctx[c].reconnectTimer = "armed"
    \/ \E b \in 0..MaxClients : reconnects[b].phase # "none"
    \/ \E c \in ClientIds : ctx[c].isInitialized

\* C33: whenever the record's status is connecting, an initialization is
\* in flight or a reconnect timer is armed for the session.
C33_ConnectingHasPending == store.status = "connecting" => SomethingPending

(***************************************************************************)
(* C34.  The record of a session that is up.                               *)
(***************************************************************************)
\* C34: in every reachable state a session whose status is ready or
\* authenticated has no qr, no lastError and reconnectAttempts 0.
C34_UpRecordIsClean ==
    store.status \in {"ready", "authenticated"} =>
        /\ store.qr = Undef
        /\ store.lastError = Undef
        /\ store.reconnectAttempts = 0

\* C34 witness: the session came up after a `disconnected` or
\* `auth_failure` callback had recorded an error and armed the timer with a
\* count of 1 or more; the record is ready and clean while that timer is
\* still armed.
C34_Witness ==
    /\ store.status = "ready"
    /\ store.qr = Undef /\ store.lastError = Undef
    /\ store.reconnectAttempts = 0
    /\ \E c \in ClientIds : ctx[c].reconnectTimer = "armed" /\ ctx[c].delayMs > 0

(***************************************************************************)
(* SpecRepeat: the event store receiving messages, some of them with an id *)
(* it received before; no stream is subscribed.                            *)
(***************************************************************************)
NextRepeat ==
    \/ \E fromMe \in BOOLEAN, peer \in Peers : PushMessage(fromMe, peer, {})
    \/ \E id \in MsgIds, fromMe \in BOOLEAN, peer \in Peers :
          PushRepeated(id, fromMe, peer, {})

SpecRepeat == InitManager /\ [][NextRepeat]_vars

(***************************************************************************)
(* C35.  The messages held by the ordered list, by the by-id map and by    *)
(* the by-chat index.                                                      *)
(***************************************************************************)
Listed == {eventStore.messageList[j] : j \in 1..Len(eventStore.messageList)}

Mapped == {eventStore.messagesById[id] : id \in MsgIds} \ {0}

Indexed(c) ==
    {eventStore.messagesByChat[c][j] : j \in 1..Len(eventStore.messagesByChat[c])}

\* C35: after any sequence of pushMessage calls, repeated ids included,
\* every message in the list is retrievable by its id and is in its chat's
\* list, no index holds an evicted message, and the list never exceeds
\* maxMessages.
C35_IndexesDescribeTheList ==
    /\ Len(eventStore.messageList) <= maxMessages
    /\ \A m \in Listed :
          /\ getMessage(eventStore.objects[m].id) # 0
          /\ m \in Indexed(ChatIdOf(eventStore.objects[m]))
    /\ Mapped \subseteq Listed
    /\ \A c \in ChatIds : Indexed(c) \subseteq Listed

(***************************************************************************)
(* C36.  The paths of a send request: its job was stored in the queue (the *)
(* worker sends it), or sendDirect was called for it.                      *)
(***************************************************************************)
QueuedPath(r) == \E j \in JobIds : queueJobs[j].jobId = Uuid(r)

DirectPath(r) == req[r].jobId = DirectId(r)

SentBy(id) == \E i \in DOMAIN jobLogs : jobLogs[i].jobId = id

HasEntry(j) ==
    \E i \in 1..Len(sessionLocks[queueJobs[j].sessionId]) :
        /\ sessionLocks[queueJobs[j].sessionId][i].job = j
        /\ ~sessionLocks[queueJobs[j].sessionId][i].released

EnteredBefore(j, k) ==
    /\ j # k
    /\ queueJobs[j].sessionId = queueJobs[k].sessionId
    /\ HasEntry(j) /\ HasEntry(k)
    /\ OwnEntry(j) < OwnEntry(k)

\* C37: jobs of the same session execute their sends in the order in which
\* they entered the gate: a job never leaves `await previous` while a job
\* that entered before it has not finished.
C37_GateIsFifo ==
    \A j, k \in JobIds :
        EnteredBefore(j, k) => queueJobs[k].pc = "waitPrev"

\* C37 witness: the entry order differs from the queue order: a job that
\* failed once entered the gate again behind a later job of its session,
\* which is sending while the retried job waits for it.
C37_Witness ==
    \E j, k \in JobIds :
        /\ j > k
        /\ EnteredBefore(j, k)
        /\ Sending(j)
        /\ queueJobs[k].attemptsMade > 0
        /\ queueJobs[k].pc = "waitPrev"

(***************************************************************************)
(* SpecGate: one attempt of each job in the queue, with the scheduling of  *)
(* the worker: the event loop runs every continuation that is ready, a     *)
(* pending timer fires once its time has come, and every send terminates   *)
(* (it succeeds or throws).  A job whose send threw waits for BullMQ's     *)
(* backoff, which does not elapse within the scenario.                     *)
(***************************************************************************)
NextGate ==
    \/ WorkerDequeue
    \/ \E j \in JobIds : GateProceed(j)
    \/ \E j \in JobIds : DelayDone(j)
    \/ \E j \in JobIds : InternalSendOk(j)
    \/ \E j \in JobIds : InternalSendFail(j)
    \/ \E j \in JobIds : TaskReturn(j)
    \/ \E j \in JobIds : TaskThrow(j)
    \/ DelayTick

GateFairness ==
    /\ WF_vars(DelayTick)
    /\ \A j \in 1..MaxJobs :
          /\ WF_vars(GateProceed(j))
          /\ WF_vars(DelayDone(j))
          /\ WF_vars(InternalSendOk(j) \/ InternalSendFail(j))
          /\ WF_vars(TaskReturn(j))
          /\ WF_vars(TaskThrow(j))

SpecGate == InitWorker /\ [][NextGate]_vars /\ GateFairness

(***************************************************************************)
(* C38.  A job that entered the gate starts executing: it leaves `await    *)
(* previous` (for the pacing delay or the send).                           *)
(***************************************************************************)
\* C38: every job that enters a session's gate eventually starts
\* executing, provided each earlier job's send terminates, whether the
\* earlier sends succeeded or threw.
C38_GateAlwaysReleased ==
    \A k \in 1..MaxJobs :
        (queueJobs[k].pc = "waitPrev") ~> (queueJobs[k].pc # "waitPrev")

\* C38 witness: the first job's send threw and the job waits for its retry;
\* the second job, of the same session, entered the gate behind it and is
\* sending.
C38_Witness ==
    /\ queueJobs[1].sessionId = queueJobs[2].sessionId
    /\ queueJobs[1].attemptsMade = 1
    /\ queueJobs[1].pc = "delayed"
    /\ queueJobs[2].attemptsMade = 0
    /\ Sending(2)
    /\ sessionLastSendAt[queueJobs[1].sessionId] = 0

(***************************************************************************)
(* C39.  The job-log entries of the send made for request r: the `queued`  *)
(* entry the route writes under the job id, and the `success` entry written *)
(* under the id of the message sent (by the worker's call or by            *)
(* sendDirect).  jobLogs is newest first.                                  *)
(***************************************************************************)
QueuedEntries(r) ==
    {i \in DOMAIN jobLogs :
        /\ jobLogs[i].status = "queued"
        /\ jobLogs[i].jobId \in {Uuid(r), DirectId(r)}}

SuccessEntries(r) ==
    {i \in DOMAIN jobLogs :
        /\ jobLogs[i].status = "success"
        /\ jobLogs[i].jobId \in {WorkerMsgId(r), DirectMsgId(r)}}

\* C39: the queued entry of a send is recorded before any success entry of
\* the same send: in the newest-first log it is never above one.
C39_QueuedBeforeSuccess ==
    \A r \in 1..MaxReq :
        \A q \in QueuedEntries(r) : \A s \in SuccessEntries(r) : q > s

====
